---- MODULE Spec2Model ----
(***************************************************************************)
(* A model of the cogs of the bot: the number relay game (cogs/number.py), *)
(* the global and the server moderation stores, the chat bridge, the       *)
(* announcement-channel resolution and the 2048 game.  Each cog is an      *)
(* independent handler set over its own state, so each has its own         *)
(* specification over the variables it owns; the others stay unchanged.    *)
(***************************************************************************)
EXTENDS Integers, Sequences, FiniteSets, TLC

\* Python's None, as a value comparable with the string ids used below.
None == "None"

\* Discord users (message authors) and text channels, by id.
Users == {"alice", "bob"}
Channels == {"c1", "c2"}

(***************************************************************************)
(* cogs/number.py: the number relay game                                   *)
(***************************************************************************)

\* Largest number a message may carry in the model.
MaxNumber == 2
\* Largest number of entries (live or deleted) of the relay_webhooks dict.
MaxEntries == 2
\* Concurrently running coroutines of the cog (on_message / relay_reset).
Handlers == {"h1", "h2"}

VARIABLES
    state_file,      \* number_relay_state.json: [exists, current_number, last_user_id]
    game_state,      \* NumberRelay.game_state (in memory)
    game_state_lock, \* NumberRelay.game_state_lock: None or the handler holding it
    relay_webhooks,  \* NumberRelay.relay_webhooks: the dict's entry table (insertion order, Tomb = deleted entry)
    webhook_file,    \* relay_webhooks.json: the set of channel ids saved
    hook_task,       \* the set_relay_channel / remove_relay_channel coroutines suspended in
                     \* their call to Discord: <<command, channel id>>
    task,            \* the coroutines of the cog: position and locals of each
    accepted,        \* history: the numbers accepted since the last reset, in order
    startNumber,     \* history: current_number when the present run of accepted numbers started
    resets           \* history: TRUE once a reset (manual or by a wrong number) has happened

\* The environment the moderation and announcement cogs share.
VARIABLES
    owner_env,       \* os.getenv("OWNER", "")
    now,             \* datetime.utcnow(), in days
    guilds,          \* bot.guilds: per guild its channels and the bot's manage_channels permission
    next_channel_id, \* the id Discord gives the next channel created
    out              \* observation: what the last handler run did (reply, sends, deletes)

\* cogs/bot_global_moderation.py and cogs/dev_commands.py
VARIABLES
    g_bans,          \* BotGlobalModeration._bans: user id -> record
    g_mutes,         \* BotGlobalModeration._mutes: user id -> record
    g_warns,         \* BotGlobalModeration._warns: user id -> list of records
    g_files,         \* data/global_ban.json, global_mute.json, global_warn.json
    channel_file,    \* data/channel.json: guild id -> channel id
    mod_channel_map, \* BotGlobalModeration._channel_map: reloaded from the file when a
                     \* broadcast starts and saved to it at every change
    dev_channel_map, \* DevCommands._channel_map: likewise
    ann_task         \* the coroutines of the announcements: position and locals of each

\* cogs/server_moderation.py
VARIABLES
    srv_mutes,       \* ServerModeration._mutes: guild id -> user id -> record
    srv_warns,       \* ServerModeration._warns: guild id -> user id -> list of records
    srv_mute_file,   \* data/mute.json
    srv_warn_file    \* data/warn.json

\* cogs/chat.py
VARIABLES
    bridge_webhooks, \* CrossChatBridge.bridge_webhooks: the channel ids, in the dict's order
    bridge_file,     \* bridge_webhooks.json
    bridge_task,     \* the on_message coroutines of the bridge: position and locals of each
    bridge_hook      \* the set_bridge / remove_bridge coroutines suspended in their call to
                     \* Discord: <<command, channel id>>

\* cogs/game_hub.py
VARIABLES
    board,           \* GameState.board
    score,           \* GameState.score
    moves,           \* GameState.moves
    scores_file,     \* data/game/2048.json: the list of score records
    last_move        \* observation: the last button pressed and the board move() left

\* cogs/game_hub.py: the worker threads that save a score (asyncio.to_thread)
VARIABLES
    save_thread,     \* the threads running _save_score_record: position, record, loaded list
    file_lock,       \* file_lock: None or the thread holding it
    submitted        \* history: the records _record_score has handed to a thread, in order

\* cogs/server_moderation.py: the calls made to Discord
VARIABLES
    ban_calls,       \* the guild.ban(target) calls made: <<guild id, user>>
    kick_calls       \* the member.kick() calls made: <<guild id, user>>

\* cogs/tools_commands.py
VARIABLES
    tool_polls,      \* ToolsCommands._polls: poll id -> record
    tool_poll_file,  \* data/tools/poll.json
    tool_tasks,      \* ToolsCommands._tasks: poll id -> the timer task, named by the user
                     \* whose create_poll started it
    tool_timers,     \* the _schedule_close_task tasks that sleep: <<poll id, user>>
    create_task,     \* the create_poll coroutines awaiting their message: <<poll id, user>>
    vote_task,       \* the handle_vote coroutines past the save: <<user, poll id>>
    close_task,      \* the close_poll coroutines past the save: <<poll id, who runs it>>
    tool_joins,      \* ToolsCommands._joins: guild id -> channel id
    tool_join_file,  \* join-leave-message/join.json
    tool_leaves,     \* ToolsCommands._leaves: guild id -> channel id
    tool_leave_file, \* join-leave-message/leave.json
    member_task      \* on_member_join / on_member_remove awaiting fetch_channel:
                     \* <<kind, guild id, channel id read>>

\* cogs/polls.py
VARIABLES
    poll_objs,       \* the poll dicts create_poll has made, in the order made
    polls,           \* Polls.polls: poll id -> the dict stored, by its place in poll_objs
    polls_file,      \* data/polls.json: poll id -> record
    create_pending,  \* the create_poll coroutines awaiting original_response: their dicts
    vote_pending     \* the PollView.handle_vote coroutines between the vote and save_poll:
                     \* user -> the dict voted on

relayVars == <<state_file, game_state, game_state_lock, relay_webhooks, webhook_file, hook_task,
               task, accepted, startNumber, resets>>
envVars == <<owner_env, now, guilds, next_channel_id, out>>
annVars == <<mod_channel_map, dev_channel_map, ann_task>>
gmodVars == <<g_bans, g_mutes, g_warns, g_files, channel_file, annVars>>
srvVars == <<srv_mutes, srv_warns, srv_mute_file, srv_warn_file>>
bridgeVars == <<bridge_webhooks, bridge_file, bridge_task, bridge_hook>>
gameVars == <<board, score, moves, scores_file, last_move>>
scoreVars == <<save_thread, file_lock, submitted>>
\* The state of the cogs below the first five.
callVars == <<ban_calls, kick_calls>>
toolPollVars == <<tool_polls, tool_poll_file, tool_tasks, tool_timers, create_task,
                  vote_task, close_task>>
joinVars == <<tool_joins, tool_join_file, tool_leaves, tool_leave_file, member_task>>
pollsVars == <<poll_objs, polls, polls_file, create_pending, vote_pending>>
laterVars == <<scoreVars, callVars, toolPollVars, joinVars, pollsVars>>
vars == <<relayVars, envVars, gmodVars, srvVars, bridgeVars, gameVars, laterVars>>

\* What the handlers of one cog leave alone: the state of the other cogs.
notRelayVars == <<envVars, gmodVars, srvVars, bridgeVars, gameVars, laterVars>>
notModVars == <<relayVars, bridgeVars, gameVars, laterVars>>
notBridgeVars == <<relayVars, envVars, gmodVars, srvVars, gameVars, laterVars>>
notGameVars == <<relayVars, envVars, gmodVars, srvVars, bridgeVars, laterVars>>
notScoreVars == <<relayVars, envVars, gmodVars, srvVars, bridgeVars, callVars,
                  toolPollVars, joinVars, pollsVars>>
notCallVars == <<relayVars, bridgeVars, gameVars, scoreVars, toolPollVars, joinVars, pollsVars>>
\* The tools cog reads OWNER and the guilds' channels and reports in out.
notToolVars == <<relayVars, gmodVars, srvVars, bridgeVars, gameVars, scoreVars, callVars,
                 pollsVars, owner_env, now, guilds, next_channel_id>>
\* The polls cog reports in out.
notPollsVars == <<relayVars, gmodVars, srvVars, bridgeVars, gameVars, scoreVars, callVars,
                  toolPollVars, joinVars, owner_env, now, guilds, next_channel_id>>

\* load_game_state's default_state.
default_state == [current_number |-> 1, last_user_id |-> None]

\* load_game_state(): {**default_state, **state} of the file, or the default.
load_game_state(file) ==
    IF file.exists
    THEN [current_number |-> file.current_number, last_user_id |-> file.last_user_id]
    ELSE default_state

\* save_game_state(state): the file's content after json.dump(state).
save_game_state(state) ==
    [exists |-> TRUE, current_number |-> state.current_number,
     last_user_id |-> state.last_user_id]

\* ---- the dict relay_webhooks, as CPython keeps it: an entry table in
\* insertion order in which a deleted entry stays as a hole.
Tomb == "<deleted>"
DictKeys(d) == {d[i] : i \in DOMAIN d} \ {Tomb}
DictUsed(d) == Cardinality({i \in DOMAIN d : d[i] # Tomb})
DictSet(d, k) == IF k \in DictKeys(d) THEN d ELSE Append(d, k)
DictPop(d, k) == [i \in DOMAIN d |-> IF d[i] = k THEN Tomb ELSE d[i]]

\* iter(d.items()): position, items left to yield, size at creation.
IterNew(d) == [pos |-> 1, len |-> DictUsed(d), used |-> DictUsed(d)]
\* next(it): an item, StopIteration, or RuntimeError (changed during iteration).
IterNext(d, it) ==
    IF it.used # DictUsed(d) THEN [kind |-> "error"]
    ELSE LET live == {i \in DOMAIN d : i >= it.pos /\ d[i] # Tomb}
         IN IF live = {} THEN [kind |-> "stop"]
            ELSE IF it.len = 0 THEN [kind |-> "error"]
            ELSE LET i == CHOOSE j \in live : \A k \in live : j <= k
                 IN [kind |-> "item", key |-> d[i],
                     it |-> [pos |-> i + 1, len |-> it.len - 1, used |-> it.used]]

\* The source channel is not skipped.
SkipTargetNever(target_id, source_channel_id, status_type) == FALSE

\* broadcast_relay_status line 132: the source channel is skipped, except for a manual reset.
SkipTarget(target_id, source_channel_id, status_type) ==
    target_id = source_channel_id /\ status_type # "MANUAL_RESET"

\* broadcast_relay_status lines 131-133: next(it), passing over a skipped source channel.
NextTarget(d, it, source_channel_id, status_type) ==
    LET r == IterNext(d, it)
    IN IF r.kind = "item" /\ SkipTarget(r.key, source_channel_id, status_type)
       THEN IterNext(d, r.it)
       ELSE r

\* A lost update: the author is recorded, the number not advanced.
AcceptNumberLost(state, author) ==
    [current_number |-> state.current_number, last_user_id |-> author]

\* on_message lines 281-282: the state after a number is accepted.
AcceptNumber(state, author) ==
    [current_number |-> state.current_number + 1, last_user_id |-> author]

\* A reset that keeps the last author.
ResetStateKeep == [current_number |-> 1, last_user_id |-> "alice"]

\* reset_game lines 151-152 and on_message lines 297-298: the start state.
ResetState == [current_number |-> 1, last_user_id |-> None]

\* A coroutine's position and locals.  The locals that only feed message texts
\* (expected_number, the author's name) are left out once the branch is taken.
\* target is the channel whose webhook.send is awaited; received and failed are the
\* channels whose send returned and whose send raised, exc the exception the coroutine
\* ended with: these three stay readable after the coroutine is over, until the slot
\* is used again.  registered and modified are history: the relay channels when the
\* for loop of the broadcast made its iterator, and whether the dict was changed since.
NoIter == [pos |-> 0, len |-> 0, used |-> 0]
IdleTask ==
    [kind |-> "idle", pc |-> "idle", author |-> None, channel |-> None,
     sent_number |-> 0, status_type |-> None,
     it |-> NoIter, target |-> None,
     received |-> {}, failed |-> {},
     registered |-> {}, modified |-> FALSE, exc |-> None]

\* The coroutine is over: it returned (exc = None) or an exception ended it.
EndTask(t, exc) ==
    [IdleTask EXCEPT !.received = t.received, !.failed = t.failed, !.exc = exc]

\* What a message carries: int(message.content.strip()) yields val, or raises ValueError.
Contents == [isInt : {TRUE}, val : 0..MaxNumber] \cup {[isInt |-> FALSE, val |-> 0]}
\* message.author.bot / message.interaction / message.type, as one tag.
MsgFlags == {"user", "bot", "interaction", "system"}

Free(h) == task[h].pc = "idle"

\* A broadcast in its loop sees every change of the dict.
MarkModified(t) ==
    [h \in Handlers |-> IF t[h].pc = "bcast"
                        THEN [t[h] EXCEPT !.modified = TRUE] ELSE t[h]]

\* asyncio.Lock.acquire(): the lock is taken at once, without a switch to another
\* coroutine, when it is free and nobody waits for it.
CanLock == game_state_lock = None /\ \A h \in Handlers : task[h].pc # "wait_lock"

\* broadcast_relay_status lines 131-137, the head of the for loop: next(it) on the
\* dict as it is now.  With an item the coroutine awaits the send to that channel's
\* webhook; at the end of the dict the broadcast returns: on_message is over, reset
\* goes on to followup.send (line 185); the RuntimeError of a dict that changed size
\* during the iteration ends the coroutine.
LoopNext(t) ==
    LET r == NextTarget(relay_webhooks, t.it, t.channel, t.status_type)
    IN IF r.kind = "item"
       THEN [t EXCEPT !.pc = "bcast", !.it = r.it, !.target = r.key]
       ELSE IF r.kind = "error" THEN EndTask(t, "RuntimeError")
       ELSE IF t.kind = "reset" THEN [EndTask(t, None) EXCEPT !.kind = "reset", !.pc = "followup"]
       ELSE EndTask(t, None)

\* A coroutine starts its broadcast (lines 306-326, 163-168): the iterator is made
\* and asked for the first target with no await between.
StartBroadcast(kind, channel, status_type) ==
    LoopNext([IdleTask EXCEPT !.kind = kind, !.channel = channel,
                              !.status_type = status_type,
                              !.it = IterNew(relay_webhooks),
                              !.registered = DictKeys(relay_webhooks)])

\* on_message lines 261-303, from the lock taken to the first await: the state is
\* loaded and checked.  An accepted number is saved, the lock released and the
\* SUCCESS broadcast started with no await between; a double post and a wrong
\* number first await message.delete() under the lock.
LockedSection(h, author, channel, sent_number) ==
    /\ LET loaded == load_game_state(state_file)
           expected_number == loaded.current_number
       IN IF author = loaded.last_user_id
          THEN /\ game_state' = loaded
               /\ game_state_lock' = h
               /\ task' = [task EXCEPT ![h] = [IdleTask EXCEPT !.kind = "msg", !.pc = "dup_reply",
                                                                !.channel = channel]]
               /\ UNCHANGED <<state_file, accepted>>
          ELSE IF sent_number = expected_number
          THEN /\ game_state' = AcceptNumber(loaded, author)
               /\ state_file' = save_game_state(game_state')
               /\ game_state_lock' = None
               /\ accepted' = Append(accepted, sent_number)
               /\ task' = [task EXCEPT ![h] = StartBroadcast("msg", channel, "SUCCESS")]
          ELSE /\ game_state' = loaded
               /\ game_state_lock' = h
               /\ task' = [task EXCEPT ![h] = [IdleTask EXCEPT !.kind = "msg", !.pc = "wrong_delete",
                                                                !.channel = channel]]
               /\ UNCHANGED <<state_file, accepted>>
    /\ UNCHANGED <<relay_webhooks, webhook_file, hook_task, startNumber, resets>>

\* on_message lines 243-261: the filters, then the lock: taken at once when it is
\* free, waited for otherwise.  A message that is filtered out ends the coroutine at once.
MsgArrive(h, author, channel, content, flag) ==
    /\ Free(h)
    /\ IF flag # "user" \/ channel \notin DictKeys(relay_webhooks) \/ ~content.isInt
       THEN UNCHANGED <<state_file, game_state, game_state_lock, relay_webhooks,
                        webhook_file, hook_task, task, accepted, startNumber, resets>>
       ELSE IF CanLock
       THEN LockedSection(h, author, channel, content.val)
       ELSE /\ task' = [task EXCEPT ![h] = [IdleTask EXCEPT !.kind = "msg", !.pc = "wait_lock",
                                              !.author = author, !.channel = channel,
                                              !.sent_number = content.val]]
            /\ UNCHANGED <<state_file, game_state, game_state_lock, relay_webhooks,
                           webhook_file, hook_task, accepted, startNumber, resets>>
    /\ UNCHANGED notRelayVars

\* on_message line 261: a waiting coroutine gets the lock.
MsgLocked(h) ==
    /\ task[h].kind = "msg" /\ task[h].pc = "wait_lock"
    /\ game_state_lock = None
    /\ LockedSection(h, task[h].author, task[h].channel, task[h].sent_number)
    /\ UNCHANGED notRelayVars

\* The double post is answered and then broadcast as a success.
DupReplyBroadcast(h, ok) ==
    /\ task[h].pc = "dup_reply" /\ game_state_lock = h
    /\ game_state_lock' = None
    /\ task' = [task EXCEPT ![h] = StartBroadcast("msg", task[h].channel, "SUCCESS")]
    /\ UNCHANGED <<state_file, game_state, relay_webhooks, webhook_file, hook_task,
                   accepted, startNumber, resets>>
    /\ UNCHANGED notRelayVars

\* on_message lines 266-275: the double post is deleted (a failure of the delete is
\* passed over) and answered with channel.send, which is not guarded: when it has
\* returned (ok) on_message returns, when it has raised on_message ends with the
\* exception; the async with releases the lock either way.
DupReply(h, ok) ==
    /\ task[h].pc = "dup_reply" /\ game_state_lock = h
    /\ game_state_lock' = None
    /\ task' = [task EXCEPT ![h] = EndTask(task[h], IF ok THEN None ELSE "HTTPException")]
    /\ UNCHANGED <<state_file, game_state, relay_webhooks, webhook_file, hook_task,
                   accepted, startNumber, resets>>
    /\ UNCHANGED notRelayVars

\* on_message lines 293-299: after the delete, the game is reset and saved under the lock.
WrongReset(h) ==
    /\ task[h].pc = "wrong_delete" /\ game_state_lock = h
    /\ game_state' = ResetState
    /\ state_file' = save_game_state(game_state')
    /\ game_state_lock' = None
    /\ accepted' = <<>>
    /\ startNumber' = 1
    /\ resets' = TRUE
    /\ task' = [task EXCEPT ![h].pc = "fail_notice", ![h].status_type = "ERROR_RESET"]
    /\ UNCHANGED <<relay_webhooks, webhook_file, hook_task>>
    /\ UNCHANGED notRelayVars

\* on_message lines 317-326: the send of the failure notice to the source channel has
\* returned (ok) and the ERROR_RESET broadcast starts, or it has raised and on_message
\* ends with the exception, without a broadcast.
FailNotice(h, ok) ==
    /\ task[h].pc = "fail_notice"
    /\ task' = [task EXCEPT ![h] =
                  IF ok THEN LoopNext([task[h] EXCEPT !.it = IterNew(relay_webhooks),
                                                      !.registered = DictKeys(relay_webhooks)])
                  ELSE EndTask(task[h], "HTTPException")]
    /\ UNCHANGED <<state_file, game_state, game_state_lock, relay_webhooks, webhook_file, hook_task,
                   accepted, startNumber, resets>>
    /\ UNCHANGED notRelayVars

\* reset_game lines 149-168 (manual), from the lock taken on: the in-memory state is
\* reset and saved under the lock, the lock released and the MANUAL_RESET broadcast
\* started, with no await between.
ResetSection(h, channel) ==
    /\ game_state' = ResetState
    /\ state_file' = save_game_state(game_state')
    /\ accepted' = <<>>
    /\ startNumber' = 1
    /\ resets' = TRUE
    /\ task' = [task EXCEPT ![h] = StartBroadcast("reset", channel, "MANUAL_RESET")]
    /\ UNCHANGED <<game_state_lock, relay_webhooks, webhook_file, hook_task>>

\* relay_reset_command lines 180-185: reset_game(manual=True) takes the lock or waits for it.
ResetArrive(h, channel) ==
    /\ Free(h)
    /\ IF CanLock
       THEN ResetSection(h, channel)
       ELSE /\ task' = [task EXCEPT ![h] = [IdleTask EXCEPT !.kind = "reset", !.pc = "wait_lock",
                                              !.channel = channel]]
            /\ UNCHANGED <<state_file, game_state, game_state_lock, relay_webhooks,
                           webhook_file, hook_task, accepted, startNumber, resets>>
    /\ UNCHANGED notRelayVars

\* reset_game line 149: a waiting reset gets the lock.
ResetLocked(h) ==
    /\ task[h].kind = "reset" /\ task[h].pc = "wait_lock"
    /\ game_state_lock = None
    /\ ResetSection(h, task[h].channel)
    /\ UNCHANGED notRelayVars

\* broadcast_relay_status lines 137-141 and 131: the awaited webhook.send to the target
\* chosen before the await has returned (ok) or raised; a failure is logged and the
\* loop goes on: next(it) on the dict as the other coroutines have left it meanwhile.
BroadcastStep(h, ok) ==
    /\ task[h].pc = "bcast"
    /\ task' = [task EXCEPT ![h] =
                  LoopNext([task[h] EXCEPT
                              !.received = IF ok THEN @ \cup {task[h].target} ELSE @,
                              !.failed = IF ok THEN @ ELSE @ \cup {task[h].target}])]
    /\ UNCHANGED <<state_file, game_state, game_state_lock, relay_webhooks, webhook_file, hook_task,
                   accepted, startNumber, resets>>
    /\ UNCHANGED notRelayVars

\* relay_reset_command line 185: followup.send, which is not guarded, has returned
\* (ok) and the command returns, or has raised and the command ends with the exception.
ResetFollowup(h, ok) ==
    /\ task[h].pc = "followup"
    /\ task' = [task EXCEPT ![h] = EndTask(task[h], IF ok THEN None ELSE "HTTPException")]
    /\ UNCHANGED <<state_file, game_state, game_state_lock, relay_webhooks, webhook_file, hook_task,
                   accepted, startNumber, resets>>
    /\ UNCHANGED notRelayVars

\* set_relay_channel lines 191-201: the channel is not yet a relay channel; the
\* coroutine waits for channel.create_webhook.  The entries of the dict and the
\* webhooks being created stay within MaxEntries.
SetRelayChannel(channel) ==
    /\ channel \notin DictKeys(relay_webhooks)
    /\ <<"set", channel>> \notin hook_task
    /\ Len(relay_webhooks) + Cardinality({t \in hook_task : t[1] = "set"}) < MaxEntries
    /\ hook_task' = hook_task \cup {<<"set", channel>>}
    /\ UNCHANGED <<state_file, game_state, game_state_lock, relay_webhooks, webhook_file,
                   task, accepted, startNumber, resets>>
    /\ UNCHANGED notRelayVars

\* set_relay_channel lines 201-213: create_webhook has returned (ok) or raised.  With
\* the webhook the channel is put into the dict and the config saved, with no await
\* between; a channel another coroutine has added meanwhile keeps its entry.
SetRelayCreated(channel, ok) ==
    /\ <<"set", channel>> \in hook_task
    /\ hook_task' = hook_task \ {<<"set", channel>>}
    /\ IF ok
       THEN /\ relay_webhooks' = DictSet(relay_webhooks, channel)
            /\ webhook_file' = DictKeys(relay_webhooks')
            /\ task' = IF channel \in DictKeys(relay_webhooks) THEN task
                       ELSE MarkModified(task)
       ELSE UNCHANGED <<relay_webhooks, webhook_file, task>>
    /\ UNCHANGED <<state_file, game_state, game_state_lock, accepted, startNumber, resets>>
    /\ UNCHANGED notRelayVars

\* remove_relay_channel lines 218-229: the channel is popped from the dict; the
\* coroutine waits for webhook.delete, the config file still holding the channel.
RemoveRelayChannel(channel) ==
    /\ channel \in DictKeys(relay_webhooks)
    /\ <<"remove", channel>> \notin hook_task
    /\ relay_webhooks' = DictPop(relay_webhooks, channel)
    /\ task' = MarkModified(task)
    /\ hook_task' = hook_task \cup {<<"remove", channel>>}
    /\ UNCHANGED <<state_file, game_state, game_state_lock, webhook_file,
                   accepted, startNumber, resets>>
    /\ UNCHANGED notRelayVars

\* remove_relay_channel lines 229-238: webhook.delete has returned or raised (every
\* exception is caught and logged); the config is saved as the dict is now.
RemoveRelaySaved(channel) ==
    /\ <<"remove", channel>> \in hook_task
    /\ hook_task' = hook_task \ {<<"remove", channel>>}
    /\ webhook_file' = DictKeys(relay_webhooks)
    /\ UNCHANGED <<state_file, game_state, game_state_lock, relay_webhooks, task,
                   accepted, startNumber, resets>>
    /\ UNCHANGED notRelayVars
(***************************************************************************)
(* What the moderation and announcement cogs share                         *)
(***************************************************************************)

\* The clock stops at MaxTime days.
MaxTime == 1
\* Largest number of warnings on record, over all users and guilds.
MaxWarns == 2
\* Largest channel id Discord hands out.
MaxChannelId == 2

\* bot.guilds, in the order the broadcasts walk it.
GuildOrder == <<"g1", "g2">>
Guilds == {GuildOrder[i] : i \in DOMAIN GuildOrder}

\* discord.User: id, name and "name#discriminator" of the users.  A store keys a
\* user by str(user.id); the model keys by the user.
UserId == [alice |-> 101, bob |-> 102, carol |-> 103]
UserName == [alice |-> "alice", bob |-> "bob", carol |-> "carol"]
UserTag == [alice |-> "alice#0", bob |-> "bob#0", carol |-> "carol#0"]

\* str.isdigit() and int() on the values OWNER takes in the model.
IsDigit(s) == s \in {"101", "102"}
IntOf(s) == IF s = "101" THEN 101 ELSE IF s = "102" THEN 102 ELSE 0

\* An Optional value is <<>> (None) or <<v>>.
Days == {<<>>, <<1>>}
\* A dict: a function on the keys present.
EmptyMap == [k \in {} |-> None]
MapPut(m, k, v) == [x \in DOMAIN m \cup {k} |-> IF x = k THEN v ELSE m[x]]
MapDel(m, k) == [x \in DOMAIN m \ {k} |-> m[x]]

\* The observation of a handler run: the reply (result), the guilds the announcement
\* was delivered to (sent), the user a DM was tried to (dm), whether the message was
\* deleted, the records the cleanup removed and the users listed.
NoOut ==
    [cog |-> None, op |-> None, invoker |-> None, target |-> None, guild |-> None,
     result |-> None, sent |-> {}, dm |-> None, deleted |-> FALSE,
     removed |-> {}, listed |-> {}]

(***************************************************************************)
(* cogs/bot_global_moderation.py: the /bot commands and the global check   *)
(***************************************************************************)

\* CH_NAME, "极光BOT-更新" in the source: the Han characters are transliterated,
\* the cased letters kept.
CH_NAME == "aurora-BOT-update"

\* CH_NAME of dev_commands.py, "機器人公告" in the source, transliterated.
DEV_CH_NAME == "bot-announcement"

\* str.lower() on the channel names of the model.
Lower(s) ==
    IF s \in {"aurora-BOT-update", "Aurora-Bot-Update"} THEN "aurora-bot-update" ELSE s

\* Any user counts as owner once OWNER is set.
_is_owner_any(user) == owner_env # ""

\* _is_owner lines 172-185.
_is_owner(user) ==
    IF owner_env = "" THEN FALSE
    ELSE IF IsDigit(owner_env) THEN IntOf(owner_env) = UserId[user]
    ELSE UserTag[user] = owner_env \/ UserName[user] = owner_env

\* _iso_plus_days lines 117-123: None stays None, else now + days.
_iso_plus_days(days) == IF days = <<>> THEN <<>> ELSE <<now + days[1]>>

\* reason or "未提供".
ReasonOr(reason) == IF reason = None THEN "unspecified" ELSE reason

\* The record ban, mute and warn store (lines 402-408).  moderator_name and ts only
\* feed the texts of the lists and are left out.
Record(invoker, days, reason) ==
    [moderator |-> UserId[invoker], reason |-> ReasonOr(reason),
     expires |-> _iso_plus_days(days)]

\* A record expires only after its expiry time.
_is_expired_late(rec) ==
    IF rec.expires = <<>> THEN FALSE ELSE now > rec.expires[1]

\* _is_expired lines 188-195.
_is_expired(rec) ==
    IF rec.expires = <<>> THEN FALSE ELSE now >= rec.expires[1]

\* _save_all lines 165-168: the three files after the dump.
_save_all(bans, mutes, warns) == [bans |-> bans, mutes |-> mutes, warns |-> warns]

\* _cleanup_expired lines 197-209, one store: the records that stay.
Unexpired(store) == [u \in {x \in DOMAIN store : ~_is_expired(store[x])} |-> store[u]]

\* _cleanup_expired lines 197-209: the expired bans and mutes are popped and, when
\* any was, the stores saved.
_cleanup_expired ==
    /\ g_bans' = Unexpired(g_bans)
    /\ g_mutes' = Unexpired(g_mutes)
    /\ g_files' = IF g_bans' # g_bans \/ g_mutes' # g_mutes
                  THEN _save_all(g_bans', g_mutes', g_warns)
                  ELSE g_files

\* The removed list of _cleanup_expired (lines 198-206).
Removed ==
    {<<"ban", u>> : u \in DOMAIN g_bans \ DOMAIN Unexpired(g_bans)}
    \cup {<<"mute", u>> : u \in DOMAIN g_mutes \ DOMAIN Unexpired(g_mutes)}

\* Only a ban blocks.
CheckResultBanOnly(uid, bans, mutes) ==
    IF uid \in DOMAIN bans THEN "CheckFailure" ELSE "True"

\* _global_app_command_check lines 215-220, after the cleanup.
CheckResult(uid, bans, mutes) ==
    IF uid \in DOMAIN bans THEN "CheckFailure"
    ELSE IF uid \in DOMAIN mutes THEN "CheckFailure"
    ELSE "True"

\* ---- the announcement channel of a guild (lines 261-367)

\* A text channel of the guild with this id (get_channel / fetch_channel, then the
\* isinstance test): <<id>> or <<>>.
TextChannelById(channels, id) ==
    IF \E i \in DOMAIN channels : channels[i].id = id /\ channels[i].text
    THEN <<id>> ELSE <<>>

\* next(c for c in guild.text_channels if c.name.lower() == ch_name.lower()): the
\* first text channel of that name, <<id>> or <<>>.
TextChannelByName(channels, ch_name) ==
    LET hits == {i \in DOMAIN channels :
                    channels[i].text /\ Lower(channels[i].name) = Lower(ch_name)}
    IN IF hits = {} THEN <<>>
       ELSE <<channels[CHOOSE i \in hits : \A j \in hits : i <= j].id>>

\* guild.get_channel(id) finds a channel of any type (line 272).
ChannelExists(channels, id) == \E i \in DOMAIN channels : channels[i].id = id

\* perms.send_messages of the bot in the target channel (lines 363-367).
CanSend(channels, id) == \E i \in DOMAIN channels : channels[i].id = id /\ channels[i].can_send

\* The coroutines that run an announcement at the same time.
Announcers == {"a1", "a2"}

\* The cogs that announce: "bot" is BotGlobalModeration, "dev" is DevCommands.  Each
\* has its CH_NAME and its own _channel_map; both save to data/channel.json.
CogChName(cog) == IF cog = "bot" THEN CH_NAME ELSE DEV_CH_NAME
CogMap(cog) == IF cog = "bot" THEN mod_channel_map ELSE dev_channel_map

\* A coroutine of an announcement: where it is suspended (pc: the await of
\* fetch_channel, create_text_channel or send, or the awaits after the loop) and its
\* locals: the index of the guild it serves, mapped_id, the id of target_ch, the
\* user the DM goes to, and per guild served the failure recorded (None after a
\* send that succeeded: success_count and failed_details).
AnnIdle ==
    [cog |-> None, pc |-> "idle", target |-> None, i |-> 0, mapped_id |-> 0, ch |-> 0,
     trace |-> EmptyMap]

\* What a coroutine has done when it is suspended again: its position and locals, the
\* _channel_map of its cog and data/channel.json.
Suspended(pc, i, mapped_id, ch, m, file, trace) ==
    [pc |-> pc, i |-> i, mapped_id |-> mapped_id, ch |-> ch, map |-> m, file |-> file,
     trace |-> trace]

RECURSIVE BroadcastFrom(_, _, _, _, _, _)
RECURSIVE ResolveByName(_, _, _, _, _, _)
RECURSIVE ServeGuild(_, _, _, _, _, _, _)

\* The name is looked up without a look at the mapping.
ResolveChannelNameFirst(cog, i, m, file, gs, trace) ==
    ResolveByName(cog, i, m, file, gs, trace)

\* Lines 268-290 for the guild of index i: the mapped channel.  A mapped id the guild
\* has no channel for is fetched (an await); a mapped text channel is the target; a
\* mapped channel of another type is a stale mapping, which is removed and saved.
ResolveChannel(cog, i, m, file, gs, trace) ==
    LET gid == GuildOrder[i]
        chs == gs[gid].channels
    IN IF gid \notin DOMAIN m THEN ResolveByName(cog, i, m, file, gs, trace)
       ELSE IF ~ChannelExists(chs, m[gid])
       THEN Suspended("fetch", i, m[gid], 0, m, file, trace)
       ELSE IF TextChannelById(chs, m[gid]) # <<>>
       THEN ServeGuild(cog, i, m[gid], m, file, gs, trace)
       ELSE ResolveByName(cog, i, MapDel(m, gid), MapDel(m, gid), gs, trace)

\* Lines 292-327 for a guild without target: the first text channel of the cog's name
\* is the target and is recorded and saved; without one and without manage_channels
\* a failure is recorded and the loop goes on; otherwise the channel is created (an
\* await; the search repeated at lines 317-321 finds what the first did).
ResolveByName(cog, i, m, file, gs, trace) ==
    LET gid == GuildOrder[i]
        byName == TextChannelByName(gs[gid].channels, CogChName(cog))
    IN IF byName # <<>>
       THEN IF gid \notin DOMAIN m
            THEN ServeGuild(cog, i, byName[1], MapPut(m, gid, byName[1]),
                            MapPut(m, gid, byName[1]), gs, trace)
            ELSE ServeGuild(cog, i, byName[1], m, file, gs, trace)
       ELSE IF ~gs[gid].manage_channels
       THEN BroadcastFrom(cog, i + 1, m, file, gs,
                          MapPut(trace, gid, "no channel and no permission"))
       ELSE Suspended("create", i, 0, 0, m, file, trace)

\* Lines 358-374 for a guild with the target ch: without send_messages a failure is
\* recorded and the loop goes on; otherwise the embed is sent (an await).
ServeGuild(cog, i, ch, m, file, gs, trace) ==
    LET gid == GuildOrder[i]
    IN IF ~CanSend(gs[gid].channels, ch)
       THEN BroadcastFrom(cog, i + 1, m, file, gs,
                          MapPut(trace, gid, "no send permission"))
       ELSE Suspended("send", i, 0, ch, m, file, trace)

\* The for loop of lines 261-378 from the guild of index i on, up to the next await.
\* After the last guild send_cn saves its mapping once more (dev_commands.py line
\* 247); then come the awaits of the DM and of the reply.
BroadcastFrom(cog, i, m, file, gs, trace) ==
    IF i > Len(GuildOrder)
    THEN Suspended("tail", i, 0, 0, m, IF cog = "dev" THEN m ELSE file, trace)
    ELSE ResolveChannel(cog, i, m, file, gs, trace)

\* A coroutine is suspended again, as r says: its locals, the _channel_map of its cog
\* and data/channel.json change.
Resume(a, cog, r) ==
    /\ ann_task' = [ann_task EXCEPT ![a] =
                       [@ EXCEPT !.cog = cog, !.pc = r.pc, !.i = r.i,
                                 !.mapped_id = r.mapped_id, !.ch = r.ch,
                                 !.trace = r.trace]]
    /\ mod_channel_map' = IF cog = "bot" THEN r.map ELSE mod_channel_map
    /\ dev_channel_map' = IF cog = "dev" THEN r.map ELSE dev_channel_map
    /\ channel_file' = r.file

\* What a step inside an announcement shows.
AnnOut(cog) == [NoOut EXCEPT !.cog = cog, !.op = "announce"]

\* _broadcast_embed lines 244-261 (send_cn lines 131-136): the cog's mapping is
\* reloaded from data/channel.json and the loop runs up to its first await.  This is
\* the tail of ban, unban, mute, unmute, warn and unwarn, with no await between the
\* save of the stores and the reload.
Announce(a, cog, op, invoker, target) ==
    /\ ann_task[a].pc = "idle"
    /\ \E r \in {BroadcastFrom(cog, 1, channel_file, channel_file, guilds, EmptyMap)} :
          /\ ann_task' = [ann_task EXCEPT ![a] =
                             [AnnIdle EXCEPT !.cog = cog, !.target = target, !.pc = r.pc,
                                             !.i = r.i, !.mapped_id = r.mapped_id,
                                             !.ch = r.ch, !.trace = r.trace]]
          /\ mod_channel_map' = IF cog = "bot" THEN r.map ELSE mod_channel_map
          /\ dev_channel_map' = IF cog = "dev" THEN r.map ELSE dev_channel_map
          /\ channel_file' = r.file
    /\ out' = [NoOut EXCEPT !.cog = cog, !.op = op, !.invoker = invoker,
                            !.target = target, !.result = "done"]
    /\ UNCHANGED <<owner_env, now, guilds, next_channel_id>>

\* Lines 274-290: guild.fetch_channel has returned the channel of the mapped id, which
\* the guild then has (ok), or has raised, whatever the guild has.  A text channel
\* returned is the target; after an exception, or with a channel of another type,
\* the guild's entry is popped from the cog's mapping as it is now, the mapping
\* saved, and the name is looked up.
AnnFetched(a, ok) ==
    /\ ann_task[a].pc = "fetch"
    /\ ok => ChannelExists(guilds[GuildOrder[ann_task[a].i]].channels, ann_task[a].mapped_id)
    /\ LET t == ann_task[a]
           gid == GuildOrder[t.i]
           m == CogMap(t.cog)
       IN \E r \in {IF ok /\ TextChannelById(guilds[gid].channels, t.mapped_id) # <<>>
                    THEN ServeGuild(t.cog, t.i, t.mapped_id, m, channel_file, guilds, t.trace)
                    ELSE ResolveByName(t.cog, t.i, MapDel(m, gid), MapDel(m, gid),
                                       guilds, t.trace)} :
             Resume(a, t.cog, r)
    /\ out' = AnnOut(ann_task[a].cog)
    /\ UNCHANGED <<owner_env, now, guilds, next_channel_id, g_bans, g_mutes, g_warns, g_files>>
    /\ UNCHANGED <<srvVars, notModVars>>

\* Lines 328-357: guild.create_text_channel has returned the new channel ("ok"), has
\* raised Forbidden, or has raised another exception, without a new channel
\* ("error") or with it ("raced").  The new channel is the target, recorded and
\* saved; after Forbidden a failure is recorded; after another exception the name is
\* looked up again and the channel found is the target, recorded and saved, and
\* without one a failure is recorded.
AnnCreated(a, outcome) ==
    /\ ann_task[a].pc = "create"
    /\ outcome \in {"ok", "raced"} => next_channel_id <= MaxChannelId
    /\ LET t == ann_task[a]
           gid == GuildOrder[t.i]
           m == CogMap(t.cog)
           newch == [id |-> next_channel_id, name |-> CogChName(t.cog), text |-> TRUE,
                     can_send |-> TRUE]
           gs == IF outcome \in {"ok", "raced"}
                 THEN [guilds EXCEPT ![gid].channels = Append(@, newch)] ELSE guilds
           byName == TextChannelByName(gs[gid].channels, CogChName(t.cog))
           failed(why) == BroadcastFrom(t.cog, t.i + 1, m, channel_file, gs,
                                        MapPut(t.trace, gid, why))
           found(ch) == ServeGuild(t.cog, t.i, ch, MapPut(m, gid, ch), MapPut(m, gid, ch),
                                   gs, t.trace)
       IN /\ guilds' = gs
          /\ next_channel_id' = IF gs # guilds THEN next_channel_id + 1 ELSE next_channel_id
          /\ \E r \in {IF outcome = "ok" THEN found(next_channel_id)
                       ELSE IF outcome = "forbidden" THEN failed("create forbidden")
                       ELSE IF byName # <<>> THEN found(byName[1])
                       ELSE failed("create failed")} :
                Resume(a, t.cog, r)
    /\ out' = AnnOut(ann_task[a].cog)
    /\ UNCHANGED <<owner_env, now, g_bans, g_mutes, g_warns, g_files>>
    /\ UNCHANGED <<srvVars, notModVars>>

\* Lines 369-376: target_ch.send has returned (ok) or raised; the success is counted
\* or the failure recorded, and the loop goes on with the next guild.
AnnSent(a, ok) ==
    /\ ann_task[a].pc = "send"
    /\ LET t == ann_task[a]
           gid == GuildOrder[t.i]
           sent == IF ok THEN None ELSE "send failed"
       IN \E r \in {BroadcastFrom(t.cog, t.i + 1, CogMap(t.cog), channel_file, guilds,
                                  MapPut(t.trace, gid, sent))} :
             Resume(a, t.cog, r)
    /\ out' = AnnOut(ann_task[a].cog)
    /\ UNCHANGED <<owner_env, now, guilds, next_channel_id, g_bans, g_mutes, g_warns, g_files>>
    /\ UNCHANGED <<srvVars, notModVars>>

\* The guilds an announcement was delivered to: success_count of line 371.
SentTo(trace) == {g \in DOMAIN trace : trace[g] = None}

\* ban lines 420-423 (and the same lines of the other commands), send_cn lines
\* 246-252: after the loop a /bot command tries the DM to its target and replies; an
\* announcement of the developers replies.  Nothing of the state changes.
AnnTail(a) ==
    /\ ann_task[a].pc = "tail"
    /\ out' = [NoOut EXCEPT !.cog = ann_task[a].cog, !.op = "announce", !.result = "over",
                            !.target = ann_task[a].target, !.dm = ann_task[a].target,
                            !.sent = SentTo(ann_task[a].trace)]
    /\ ann_task' = [ann_task EXCEPT ![a] = AnnIdle]
    /\ UNCHANGED <<owner_env, now, guilds, next_channel_id, g_bans, g_mutes, g_warns, g_files,
                   channel_file, mod_channel_map, dev_channel_map>>
    /\ UNCHANGED <<srvVars, notModVars>>

\* A reply without any other effect ("只有 OWNER 可以使用此指令。", "目标用户未处于全局封禁状态。", ...).
\* The observation keeps the invoker of a refused command and the target of one
\* that found no record.
ReplyOnly(op, invoker, target, result) ==
    /\ out' = [NoOut EXCEPT !.cog = "bot", !.op = op, !.invoker = invoker,
                            !.target = target, !.result = result]
    /\ UNCHANGED <<owner_env, now, guilds, next_channel_id, gmodVars>>

\* _global_app_command_check lines 212-225.
GlobalCheck(user) ==
    /\ _cleanup_expired
    /\ out' = [NoOut EXCEPT !.cog = "bot", !.op = "check", !.invoker = user,
                            !.result = CheckResult(user, g_bans', g_mutes'),
                            !.removed = Removed]
    /\ UNCHANGED <<owner_env, now, guilds, next_channel_id, g_warns, channel_file, annVars>>
    /\ UNCHANGED <<srvVars, notModVars>>

\* ban lines 394-423.
BotBan(a, invoker, target, days, reason) ==
    /\ IF ~_is_owner(invoker) THEN ReplyOnly("ban", invoker, None, "owner only")
       ELSE /\ g_bans' = MapPut(g_bans, target, Record(invoker, days, reason))
            /\ g_files' = _save_all(g_bans', g_mutes, g_warns)
            /\ UNCHANGED <<g_mutes, g_warns>>
            /\ Announce(a, "bot", "ban", invoker, target)
    /\ UNCHANGED <<srvVars, notModVars>>

\* unban lines 427-447.
BotUnban(a, invoker, target) ==
    /\ IF ~_is_owner(invoker) THEN ReplyOnly("unban", invoker, None, "owner only")
       ELSE IF target \notin DOMAIN g_bans
       THEN ReplyOnly("unban", None, target, "not banned")
       ELSE /\ g_bans' = MapDel(g_bans, target)
            /\ g_files' = _save_all(g_bans', g_mutes, g_warns)
            /\ UNCHANGED <<g_mutes, g_warns>>
            /\ Announce(a, "bot", "unban", invoker, target)
    /\ UNCHANGED <<srvVars, notModVars>>

\* mute lines 451-480.
BotMute(a, invoker, target, days, reason) ==
    /\ IF ~_is_owner(invoker) THEN ReplyOnly("mute", invoker, None, "owner only")
       ELSE /\ g_mutes' = MapPut(g_mutes, target, Record(invoker, days, reason))
            /\ g_files' = _save_all(g_bans, g_mutes', g_warns)
            /\ UNCHANGED <<g_bans, g_warns>>
            /\ Announce(a, "bot", "mute", invoker, target)
    /\ UNCHANGED <<srvVars, notModVars>>

\* unmute lines 484-504.
BotUnmute(a, invoker, target) ==
    /\ IF ~_is_owner(invoker) THEN ReplyOnly("unmute", invoker, None, "owner only")
       ELSE IF target \notin DOMAIN g_mutes
       THEN ReplyOnly("unmute", None, target, "not muted")
       ELSE /\ g_mutes' = MapDel(g_mutes, target)
            /\ g_files' = _save_all(g_bans, g_mutes', g_warns)
            /\ UNCHANGED <<g_bans, g_warns>>
            /\ Announce(a, "bot", "unmute", invoker, target)
    /\ UNCHANGED <<srvVars, notModVars>>

\* self._warns.get(uid, []).
WarnsOf(warns, uid) == IF uid \in DOMAIN warns THEN warns[uid] ELSE <<>>

\* The number of warnings on record, in the global store and in the guilds' stores.
WarnCount ==
    Cardinality(UNION {{<<u, i>> : i \in DOMAIN g_warns[u]} : u \in DOMAIN g_warns})
    + Cardinality(UNION {UNION {{<<g, u, i>> : i \in DOMAIN srv_warns[g][u]} :
                                   u \in DOMAIN srv_warns[g]} : g \in DOMAIN srv_warns})

\* list.pop() keeps the first of two warnings instead of the last.
PopWarnFirst(lst) == SubSeq(lst, 2, Len(lst))

\* list.pop() (bot_global_moderation.py line 555, server_moderation.py line 390): the
\* list without its last element.
PopWarn(lst) == SubSeq(lst, 1, Len(lst) - 1)

\* warn lines 508-540.
BotWarn(a, invoker, target, days, reason) ==
    /\ IF ~_is_owner(invoker) THEN ReplyOnly("warn", invoker, None, "owner only")
       ELSE /\ WarnCount < MaxWarns
            /\ g_warns' = MapPut(g_warns, target,
                                 Append(WarnsOf(g_warns, target), Record(invoker, days, reason)))
            /\ g_files' = _save_all(g_bans, g_mutes, g_warns')
            /\ UNCHANGED <<g_bans, g_mutes>>
            /\ Announce(a, "bot", "warn", invoker, target)
    /\ UNCHANGED <<srvVars, notModVars>>

\* unwarn lines 544-571.
BotUnwarn(a, invoker, target) ==
    /\ IF ~_is_owner(invoker) THEN ReplyOnly("unwarn", invoker, None, "owner only")
       ELSE IF WarnsOf(g_warns, target) = <<>>
       THEN ReplyOnly("unwarn", None, target, "no record")
       ELSE /\ LET lst == PopWarn(WarnsOf(g_warns, target))
               IN g_warns' = IF lst # <<>> THEN MapPut(g_warns, target, lst)
                             ELSE MapDel(g_warns, target)
            /\ g_files' = _save_all(g_bans, g_mutes, g_warns')
            /\ UNCHANGED <<g_bans, g_mutes>>
            /\ Announce(a, "bot", "unwarn", invoker, target)
    /\ UNCHANGED <<srvVars, notModVars>>

\* list_bans lines 574-595 and list_mutes lines 598-617: the cleanup, then the list.
BotList(op, invoker) ==
    /\ op \in {"list_bans", "list_mutes"}
    /\ IF ~_is_owner(invoker) THEN ReplyOnly(op, invoker, None, "owner only")
       ELSE /\ _cleanup_expired
            /\ out' = [NoOut EXCEPT !.cog = "bot", !.op = op, !.invoker = invoker,
                                    !.result = "done", !.removed = Removed,
                                    !.listed = IF op = "list_bans" THEN DOMAIN g_bans'
                                               ELSE DOMAIN g_mutes']
            /\ UNCHANGED <<owner_env, now, guilds, next_channel_id, g_warns, channel_file, annVars>>
    /\ UNCHANGED <<srvVars, notModVars>>

\* datetime.utcnow() moves on by a day.
Tick ==
    /\ now < MaxTime
    /\ now' = now + 1
    /\ out' = [NoOut EXCEPT !.op = "tick"]
    /\ UNCHANGED <<owner_env, guilds, next_channel_id, gmodVars, srvVars, notModVars>>

(***************************************************************************)
(* cogs/dev_commands.py: the announcement of the developers                *)
(***************************************************************************)

\* _is_owner_user lines 37-50.
_is_owner_user(user) ==
    IF owner_env = "" THEN FALSE
    ELSE IF IsDigit(owner_env) THEN IntOf(owner_env) = UserId[user]
    ELSE UserTag[user] = owner_env \/ UserName[user] = owner_env

\* send_cn lines 118-136: the owner check, then the announcement under the name
\* of this cog and with its own mapping.
DevSend(a, invoker) ==
    /\ IF ~_is_owner_user(invoker)
       THEN /\ out' = [NoOut EXCEPT !.cog = "dev", !.op = "send", !.invoker = invoker,
                                    !.result = "owner only"]
            /\ UNCHANGED <<owner_env, now, guilds, next_channel_id, channel_file, annVars>>
       ELSE Announce(a, "dev", "send", invoker, None)
    /\ UNCHANGED <<g_bans, g_mutes, g_warns, g_files>>
    /\ UNCHANGED <<srvVars, notModVars>>

\* ---- what happens to the guilds and to data/channel.json, at any moment

\* The channels a guild's members create: a text channel named as the moderation
\* wants it (in another case), a voice channel of that name, and a text channel of
\* the developers' name the bot may not write to.
ChannelKinds ==
    {[name |-> "Aurora-Bot-Update", text |-> TRUE, can_send |-> TRUE],
     [name |-> CH_NAME, text |-> FALSE, can_send |-> TRUE],
     [name |-> DEV_CH_NAME, text |-> TRUE, can_send |-> FALSE]}

\* A member creates a channel (read at guild.text_channels, line 295).
ChannelCreated(gid, kind) ==
    /\ next_channel_id <= MaxChannelId
    /\ guilds' = [guilds EXCEPT ![gid].channels =
                     Append(@, [id |-> next_channel_id, name |-> kind.name,
                                text |-> kind.text, can_send |-> kind.can_send])]
    /\ next_channel_id' = next_channel_id + 1
    /\ out' = [NoOut EXCEPT !.op = "guild"]
    /\ UNCHANGED <<owner_env, now, gmodVars, srvVars, notModVars>>

\* A member deletes a channel (seen at guild.get_channel, line 272).
ChannelDeleted(gid, i) ==
    /\ i \in DOMAIN guilds[gid].channels
    /\ guilds' = [guilds EXCEPT ![gid].channels =
                     SubSeq(@, 1, i - 1) \o SubSeq(@, i + 1, Len(@))]
    /\ out' = [NoOut EXCEPT !.op = "guild"]
    /\ UNCHANGED <<owner_env, now, next_channel_id, gmodVars, srvVars, notModVars>>

\* The bot is given or denied manage_channels (read at line 312).
PermissionSet(gid, allowed) ==
    /\ guilds[gid].manage_channels # allowed
    /\ guilds' = [guilds EXCEPT ![gid].manage_channels = allowed]
    /\ out' = [NoOut EXCEPT !.op = "guild"]
    /\ UNCHANGED <<owner_env, now, next_channel_id, gmodVars, srvVars, notModVars>>

\* data/channel.json is edited by hand (the edits _load_channel_map picks up, line 257).
FileEdited(gid, id) ==
    /\ id \in 1..MaxChannelId
    /\ IF gid \in DOMAIN channel_file THEN channel_file[gid] # id ELSE TRUE
    /\ channel_file' = MapPut(channel_file, gid, id)
    /\ out' = [NoOut EXCEPT !.op = "file"]
    /\ UNCHANGED <<owner_env, now, guilds, next_channel_id, g_bans, g_mutes, g_warns,
                   g_files, annVars, srvVars, notModVars>>

(***************************************************************************)
(* cogs/server_moderation.py: the /server commands and the mute enforcement *)
(***************************************************************************)

\* The users the guilds know: the two above and a third without any permission.
Members == Users \cup {"carol"}

\* member.guild_permissions and member.top_role (as the role's position).
NoPerms ==
    [administrator |-> FALSE, ban_members |-> FALSE, kick_members |-> FALSE,
     manage_messages |-> FALSE, moderate_members |-> FALSE, manage_roles |-> FALSE,
     top_role |-> 1]

\* guild.get_member / guild.fetch_member: <<>> for a user who is not a member.  In g1
\* alice is administrator, bob a moderator above carol; in g2 alice is no member, bob
\* may kick (and so warn, but not mute) and carol may moderate members above bob.
\* dave is a user outside both guilds, only ever the target of a command.
GuildMembers ==
    [g1 |-> [alice |-> <<[NoPerms EXCEPT !.administrator = TRUE, !.top_role = 3]>>,
             bob |-> <<[NoPerms EXCEPT !.manage_messages = TRUE, !.top_role = 2]>>,
             carol |-> <<NoPerms>>,
             dave |-> <<>>],
     g2 |-> [alice |-> <<>>,
             bob |-> <<[NoPerms EXCEPT !.kick_members = TRUE]>>,
             carol |-> <<[NoPerms EXCEPT !.moderate_members = TRUE, !.top_role = 2]>>,
             dave |-> <<>>]]

\* _get_member_safe lines 85-99.
_get_member_safe(gid, user) == GuildMembers[gid][user]

\* _is_guild_admin lines 101-108.
_is_guild_admin(member) == member # <<>> /\ member[1].administrator

\* _require_permission_for_action lines 110-132.
_require_permission_for_action(member, action) ==
    IF member = <<>> THEN FALSE
    ELSE LET perms == member[1]
         IN IF perms.administrator THEN TRUE
            ELSE IF action = "ban" THEN perms.ban_members
            ELSE IF action = "kick" THEN perms.kick_members
            ELSE IF action = "mute"
            THEN perms.manage_messages \/ perms.moderate_members \/ perms.manage_roles
            ELSE IF action = "warn"
            THEN perms.manage_messages \/ perms.kick_members \/ perms.ban_members
            ELSE FALSE

\* A moderator passes against a target whose top role is not above their own.
_check_hierarchyEqual(moderator, target) ==
    IF moderator[1].administrator THEN TRUE
    ELSE IF target = <<>> THEN FALSE
    ELSE moderator[1].top_role >= target[1].top_role

\* _check_hierarchy lines 134-146.
_check_hierarchy(moderator, target) ==
    IF moderator[1].administrator THEN TRUE
    ELSE IF target = <<>> THEN FALSE
    ELSE moderator[1].top_role > target[1].top_role

\* Lines 426-429 and 335-338: days_f = float(days); a zero or missing days_f gives no expiry.
SrvExpiry(days) == IF days = <<>> \/ days[1] = 0 THEN <<>> ELSE <<now + days[1]>>

\* The record mute and warn store (lines 433-439, 343-349), without the texts.
SrvRecord(invoker, days, reason) ==
    [moderator |-> UserId[invoker], reason |-> ReasonOr(reason), expires |-> SrvExpiry(days)]

\* self._mutes.get(str(guild.id), {}) and self._warns.get(str(guild.id), {}).
GuildStore(store, gid) == IF gid \in DOMAIN store THEN store[gid] ELSE EmptyMap

\* on_message lines 159-160: the author's mute record in this guild, <<>> if none.
MuteEntry(mutes, gid, user) ==
    IF user \in DOMAIN GuildStore(mutes, gid) THEN <<mutes[gid][user]>> ELSE <<>>

\* A mute never expires.
SrvExpiredNever(entry) == FALSE

\* on_message line 168: expires_dt and now >= expires_dt.
SrvExpired(entry) == entry.expires # <<>> /\ now >= entry.expires[1]

\* The days a /server command is given: none, zero, one.
SrvDays == {<<>>, <<0>>, <<1>>}

\* A reply of the server cog without any other effect.  The observation keeps who
\* and where only as far as the reply depends on the stores.
SrvReply(op, gid, invoker, target, result) ==
    /\ out' = [NoOut EXCEPT !.cog = "server", !.op = op, !.guild = gid,
                            !.invoker = invoker, !.target = target, !.result = result]
    /\ UNCHANGED srvVars

\* on_message lines 150-200.  gid = None is a direct message.  deleted tells that
\* message.delete() was called, dm that the DM was tried; their errors are ignored.
SrvOnMessage(gid, author, is_bot) ==
    /\ IF is_bot THEN SrvReply("message", gid, author, None, "bot")
       ELSE IF gid = None \/ MuteEntry(srv_mutes, gid, author) = <<>>
       THEN SrvReply("message", gid, author, None, "ignored")
       ELSE IF SrvExpired(MuteEntry(srv_mutes, gid, author)[1])
       THEN /\ srv_mutes' = MapPut(srv_mutes, gid, MapDel(srv_mutes[gid], author))
            /\ srv_mute_file' = srv_mutes'
            /\ out' = [NoOut EXCEPT !.cog = "server", !.op = "message", !.guild = gid,
                                    !.invoker = author, !.result = "expired"]
            /\ UNCHANGED <<srv_warns, srv_warn_file>>
       ELSE /\ out' = [NoOut EXCEPT !.cog = "server", !.op = "message", !.guild = gid,
                                    !.invoker = author, !.result = "deleted",
                                    !.deleted = TRUE, !.dm = author]
            /\ UNCHANGED srvVars
    /\ UNCHANGED <<owner_env, now, guilds, next_channel_id, gmodVars, notModVars>>

\* mute lines 400-455.
SrvMute(gid, invoker, target, days, reason) ==
    /\ IF gid = None THEN SrvReply("mute", None, None, None, "guild only")
       ELSE LET moderator == _get_member_safe(gid, invoker)
                member == GuildMembers[gid][target]
            IN IF ~_require_permission_for_action(moderator, "mute")
               THEN SrvReply("mute", None, None, None, "no permission")
               ELSE IF member # <<>> /\ ~_check_hierarchy(moderator, member)
               THEN SrvReply("mute", None, None, None, "hierarchy")
               ELSE IF member = <<>> /\ ~_is_guild_admin(moderator)
               THEN SrvReply("mute", None, None, None, "not a member")
               ELSE /\ srv_mutes' = MapPut(srv_mutes, gid,
                                       MapPut(GuildStore(srv_mutes, gid), target,
                                              SrvRecord(invoker, days, reason)))
                    /\ srv_mute_file' = srv_mutes'
                    /\ out' = [NoOut EXCEPT !.cog = "server", !.op = "mute", !.guild = gid,
                                            !.invoker = invoker, !.target = target,
                                            !.result = "done", !.dm = target]
                    /\ UNCHANGED <<srv_warns, srv_warn_file>>
    /\ UNCHANGED <<owner_env, now, guilds, next_channel_id, gmodVars, notModVars>>

\* unmute lines 460-481.
SrvUnmute(gid, invoker, target) ==
    /\ IF gid = None THEN SrvReply("unmute", None, None, None, "guild only")
       ELSE IF ~_require_permission_for_action(_get_member_safe(gid, invoker), "mute")
       THEN SrvReply("unmute", None, None, None, "no permission")
       ELSE IF target \notin DOMAIN GuildStore(srv_mutes, gid)
       THEN SrvReply("unmute", gid, None, target, "not muted")
       ELSE /\ srv_mutes' = MapPut(srv_mutes, gid, MapDel(srv_mutes[gid], target))
            /\ srv_mute_file' = srv_mutes'
            /\ out' = [NoOut EXCEPT !.cog = "server", !.op = "unmute", !.guild = gid,
                                    !.invoker = invoker, !.target = target,
                                    !.result = "done"]
            /\ UNCHANGED <<srv_warns, srv_warn_file>>
    /\ UNCHANGED <<owner_env, now, guilds, next_channel_id, gmodVars, notModVars>>

\* warn lines 323-367.
SrvWarn(gid, invoker, target, days, reason) ==
    /\ IF gid = None THEN SrvReply("warn", None, None, None, "guild only")
       ELSE IF ~_require_permission_for_action(_get_member_safe(gid, invoker), "warn")
       THEN SrvReply("warn", None, None, None, "no permission")
       ELSE /\ WarnCount < MaxWarns
            /\ LET guild_warns == GuildStore(srv_warns, gid)
                   user_warns == WarnsOf(guild_warns, target)
               IN srv_warns' = MapPut(srv_warns, gid,
                                  MapPut(guild_warns, target,
                                         Append(user_warns, SrvRecord(invoker, days, reason))))
            /\ srv_warn_file' = srv_warns'
            /\ out' = [NoOut EXCEPT !.cog = "server", !.op = "warn", !.guild = gid,
                                    !.invoker = invoker, !.target = target,
                                    !.result = "done", !.dm = target]
            /\ UNCHANGED <<srv_mutes, srv_mute_file>>
    /\ UNCHANGED <<owner_env, now, guilds, next_channel_id, gmodVars, notModVars>>

\* unwarn lines 372-395: the list, emptied or not, stays under the user's key.
SrvUnwarn(gid, invoker, target) ==
    /\ IF gid = None THEN SrvReply("unwarn", None, None, None, "guild only")
       ELSE IF ~_require_permission_for_action(_get_member_safe(gid, invoker), "warn")
       THEN SrvReply("unwarn", None, None, None, "no permission")
       ELSE IF WarnsOf(GuildStore(srv_warns, gid), target) = <<>>
       THEN SrvReply("unwarn", gid, None, target, "no record")
       ELSE /\ srv_warns' = MapPut(srv_warns, gid,
                               MapPut(srv_warns[gid], target, PopWarn(srv_warns[gid][target])))
            /\ srv_warn_file' = srv_warns'
            /\ out' = [NoOut EXCEPT !.cog = "server", !.op = "unwarn", !.guild = gid,
                                    !.invoker = invoker, !.target = target,
                                    !.result = "done"]
            /\ UNCHANGED <<srv_mutes, srv_mute_file>>
    /\ UNCHANGED <<owner_env, now, guilds, next_channel_id, gmodVars, notModVars>>

\* The users a /server command can name: the members and the outsider.
SrvTargets == Members \cup {"dave"}

\* The number of guild.ban and member.kick calls a run of the model makes.
MaxCalls == 1

\* ban lines 208-249.  days and reason only feed the texts.  forbidden tells that
\* guild.ban raised; the call was made all the same.
SrvBan(gid, invoker, target, forbidden) ==
    /\ Cardinality(ban_calls) + Cardinality(kick_calls) < MaxCalls
    /\ IF gid = None
       THEN SrvReply("ban", None, None, None, "guild only") /\ UNCHANGED callVars
       ELSE LET moderator == _get_member_safe(gid, invoker)
                member == GuildMembers[gid][target]
            IN IF ~_require_permission_for_action(moderator, "ban")
               THEN SrvReply("ban", None, None, None, "no permission") /\ UNCHANGED callVars
               ELSE IF member # <<>> /\ ~_check_hierarchy(moderator, member)
               THEN SrvReply("ban", None, None, None, "hierarchy") /\ UNCHANGED callVars
               ELSE IF member = <<>> /\ ~_is_guild_admin(moderator)
               THEN SrvReply("ban", None, None, None, "not a member") /\ UNCHANGED callVars
               ELSE /\ ban_calls' = ban_calls \cup {<<gid, target>>}
                    /\ out' = [NoOut EXCEPT !.cog = "server", !.op = "ban", !.guild = gid,
                                            !.invoker = invoker, !.target = target,
                                            !.result = IF forbidden THEN "forbidden" ELSE "done"]
                    /\ UNCHANGED <<srvVars, kick_calls>>
    /\ UNCHANGED <<owner_env, now, guilds, next_channel_id, gmodVars, notCallVars>>

\* kick lines 289-319.
SrvKick(gid, invoker, target, forbidden) ==
    /\ Cardinality(ban_calls) + Cardinality(kick_calls) < MaxCalls
    /\ IF gid = None
       THEN SrvReply("kick", None, None, None, "guild only") /\ UNCHANGED callVars
       ELSE LET moderator == _get_member_safe(gid, invoker)
                member == GuildMembers[gid][target]
            IN IF ~_require_permission_for_action(moderator, "kick")
               THEN SrvReply("kick", None, None, None, "no permission") /\ UNCHANGED callVars
               ELSE IF member = <<>>
               THEN SrvReply("kick", None, None, None, "not a member") /\ UNCHANGED callVars
               ELSE IF ~_check_hierarchy(moderator, member)
               THEN SrvReply("kick", None, None, None, "hierarchy") /\ UNCHANGED callVars
               ELSE /\ kick_calls' = kick_calls \cup {<<gid, target>>}
                    /\ out' = [NoOut EXCEPT !.cog = "server", !.op = "kick", !.guild = gid,
                                            !.invoker = invoker, !.target = target,
                                            !.result = IF forbidden THEN "forbidden" ELSE "done"]
                    /\ UNCHANGED <<srvVars, ban_calls>>
    /\ UNCHANGED <<owner_env, now, guilds, next_channel_id, gmodVars, notCallVars>>

\* list_mutes lines 485-499: a line for every record the guild's store holds.
SrvListMutes(gid) ==
    /\ IF gid = None THEN SrvReply("list_mutes", None, None, None, "guild only")
       ELSE IF DOMAIN GuildStore(srv_mutes, gid) = {}
       THEN SrvReply("list_mutes", gid, None, None, "none")
       ELSE /\ out' = [NoOut EXCEPT !.cog = "server", !.op = "list_mutes", !.guild = gid,
                                    !.result = "listed",
                                    !.listed = DOMAIN GuildStore(srv_mutes, gid)]
            /\ UNCHANGED srvVars
    /\ UNCHANGED <<owner_env, now, guilds, next_channel_id, gmodVars, notModVars>>

(***************************************************************************)
(* cogs/chat.py: the cross-guild chat bridge                               *)
(***************************************************************************)

\* The on_message coroutine of the bridge that is followed.  The coroutines share
\* nothing but the dict of webhooks, which set_bridge and remove_bridge change while
\* this one runs.
BridgeHandlers == {"b1"}

\* The channels of the bridge's guilds.
BridgeChannels == Channels \cup {"c3"}

\* What fetch_message on the replied message does: it returns the message, raises
\* NotFound, or raises another error.
Fetches == {"found", "NotFound", "error"}

\* dict.pop(key) on the dict's order of keys.
SeqRemove(seq, k) ==
    LET keep == {i \in DOMAIN seq : seq[i] # k}
        F[n \in 0..Len(seq)] ==
            IF n = 0 THEN <<>>
            ELSE IF n \in keep THEN Append(F[n - 1], seq[n]) ELSE F[n - 1]
    IN F[Len(seq)]
SeqKeys(seq) == {seq[i] : i \in DOMAIN seq}

\* An on_message coroutine of the bridge: where it is, its locals, and what its
\* loop has done: the channels a send went to and succeeded (delivered) or failed,
\* and whether any got a second send.  result tells how the last run ended.
IdleBridgeTask ==
    [pc |-> "idle", result |-> None, source |-> None, has_content |-> FALSE,
     targets |-> <<>>, idx |-> 0, delivered |-> {}, failed |-> {}, resent |-> FALSE]

\* The source channel is a target like the others.
BridgeSkipNever(target_id, source_channel_id) == FALSE

\* on_message lines 195-196: the source channel is passed over.
BridgeSkip(target_id, source_channel_id) == target_id = source_channel_id

\* The index of the for loop's next target at or after i, Len + 1 when the loop ends.
NextIndex(targets, i, source) ==
    LET rest == {j \in DOMAIN targets : j >= i /\ ~BridgeSkip(targets[j], source)}
    IN IF rest = {} THEN Len(targets) + 1 ELSE CHOOSE j \in rest : \A k \in rest : j <= k

\* on_message lines 171-192: the attachments are appended to the content, an empty
\* message without embed is dropped, the webhooks are listed, and with at most one
\* of them nothing is forwarded.
BridgePrepare(t, embed) ==
    IF ~t.has_content /\ ~embed THEN [IdleBridgeTask EXCEPT !.result = "empty"]
    ELSE IF Len(bridge_webhooks) <= 1 THEN [IdleBridgeTask EXCEPT !.result = "too few"]
    ELSE [t EXCEPT !.pc = "send", !.targets = bridge_webhooks,
                   !.idx = NextIndex(bridge_webhooks, 1, t.source)]

\* on_message lines 113-192, up to the first await.  flag is the author.bot /
\* interaction / type filter; content and attachments make has_content; reference
\* is whether the message refers to another.
BridgeMsgArrive(h, channel, flag, content, attachments, reference) ==
    /\ bridge_task[h].pc = "idle"
    /\ LET t == [IdleBridgeTask EXCEPT !.source = channel,
                                       !.has_content = content \/ attachments]
       IN bridge_task' = [bridge_task EXCEPT ![h] =
              IF flag # "user" THEN [IdleBridgeTask EXCEPT !.result = "filtered"]
              ELSE IF channel \notin SeqKeys(bridge_webhooks)
              THEN [IdleBridgeTask EXCEPT !.result = "unregistered"]
              ELSE IF reference THEN [t EXCEPT !.pc = "fetch"]
              ELSE BridgePrepare(t, FALSE)]
    /\ UNCHANGED <<bridge_webhooks, bridge_file, bridge_hook>>
    /\ UNCHANGED notBridgeVars

\* on_message lines 134-169: fetch_message has returned or raised; a found or a
\* deleted message gives an embed, another error none.
BridgeFetched(h, fetch) ==
    /\ bridge_task[h].pc = "fetch"
    /\ bridge_task' = [bridge_task EXCEPT ![h] =
           BridgePrepare(bridge_task[h], fetch \in {"found", "NotFound"})]
    /\ UNCHANGED <<bridge_webhooks, bridge_file, bridge_hook>>
    /\ UNCHANGED notBridgeVars

\* on_message lines 194-215: one send of the loop; a failure is logged and the loop
\* goes on.  After the last target the coroutine ends.
BridgeSend(h, ok) ==
    /\ bridge_task[h].pc = "send"
    /\ LET t == bridge_task[h]
       IN IF t.idx > Len(t.targets)
          THEN /\ ok
               /\ bridge_task' = [bridge_task EXCEPT ![h] =
                                     [IdleBridgeTask EXCEPT !.result = "forwarded"]]
          ELSE LET target_id == t.targets[t.idx]
               IN bridge_task' = [bridge_task EXCEPT
                     ![h].idx = NextIndex(t.targets, t.idx + 1, t.source),
                     ![h].resent = @ \/ target_id \in (t.delivered \cup t.failed),
                     ![h].delivered = IF ok THEN @ \cup {target_id} ELSE @,
                     ![h].failed = IF ok THEN @ ELSE @ \cup {target_id}]
    /\ UNCHANGED <<bridge_webhooks, bridge_file, bridge_hook>>
    /\ UNCHANGED notBridgeVars

\* set_bridge lines 64-74: a channel that is a bridge is refused; otherwise the
\* coroutine calls channel.create_webhook and is suspended.
SetBridge(channel) ==
    /\ <<"set", channel>> \notin bridge_hook
    /\ bridge_hook' = IF channel \in SeqKeys(bridge_webhooks) THEN bridge_hook
                      ELSE bridge_hook \cup {<<"set", channel>>}
    /\ UNCHANGED <<bridge_webhooks, bridge_file, bridge_task>>
    /\ UNCHANGED notBridgeVars

\* set_bridge lines 74-85: create_webhook has returned (created) or raised; the
\* webhook created is put into the dict and the config saved.
SetBridgeCreated(channel, created) ==
    /\ <<"set", channel>> \in bridge_hook
    /\ bridge_hook' = bridge_hook \ {<<"set", channel>>}
    /\ IF ~created
       THEN UNCHANGED <<bridge_webhooks, bridge_file>>
       ELSE /\ bridge_webhooks' = IF channel \in SeqKeys(bridge_webhooks) THEN bridge_webhooks
                                  ELSE Append(bridge_webhooks, channel)
            /\ bridge_file' = bridge_webhooks'
    /\ UNCHANGED bridge_task
    /\ UNCHANGED notBridgeVars

\* remove_bridge lines 89-99: a channel that is no bridge is refused; otherwise the
\* channel is popped and the coroutine calls webhook.delete and is suspended.
RemoveBridge(channel) ==
    /\ <<"remove", channel>> \notin bridge_hook
    /\ IF channel \notin SeqKeys(bridge_webhooks)
       THEN UNCHANGED <<bridge_webhooks, bridge_hook>>
       ELSE /\ bridge_webhooks' = SeqRemove(bridge_webhooks, channel)
            /\ bridge_hook' = bridge_hook \cup {<<"remove", channel>>}
    /\ UNCHANGED <<bridge_file, bridge_task>>
    /\ UNCHANGED notBridgeVars

\* remove_bridge lines 99-105: webhook.delete has returned or raised; the config is
\* saved as the dict is now.
RemoveBridgeSaved(channel) ==
    /\ <<"remove", channel>> \in bridge_hook
    /\ bridge_hook' = bridge_hook \ {<<"remove", channel>>}
    /\ bridge_file' = bridge_webhooks
    /\ UNCHANGED <<bridge_webhooks, bridge_task>>
    /\ UNCHANGED notBridgeVars

(***************************************************************************)
(* cogs/game_hub.py: 2048                                                  *)
(***************************************************************************)

\* The side of the board.
Size == 4
\* Largest number of moves of a game in the model.
MaxMoves == 1
Cells == (1..Size) \X (1..Size)
Directions == {"left", "up", "right", "down"}

\* GameState.board's default: [[0]*4 for _ in range(4)].
EmptyBoard == [r \in 1..Size |-> [c \in 1..Size |-> 0]]

\* _rotate_90_clockwise lines 55-56: zip(*matrix[::-1]).
_rotate_90_clockwise(matrix) ==
    [r \in 1..Size |-> [c \in 1..Size |-> matrix[Size + 1 - c][r]]]

\* n times _rotate_90_clockwise (the loops of lines 78-79 and 91-92).
RECURSIVE Rotate(_, _)
Rotate(matrix, n) == IF n = 0 THEN matrix ELSE Rotate(_rotate_90_clockwise(matrix), n - 1)

\* The zeros stay in the line.
NonZeroKeep(line) == line

\* Line 59: [v for v in line if v != 0].
RECURSIVE NonZero(_)
NonZero(line) ==
    IF line = <<>> THEN <<>>
    ELSE IF Head(line) # 0 THEN <<Head(line)>> \o NonZero(Tail(line))
    ELSE NonZero(Tail(line))

\* The while loop of lines 61-69 on the list new: the merged list and the gain.
RECURSIVE MergeLine(_)
MergeLine(new) ==
    IF new = <<>> THEN [res |-> <<>>, gained |-> 0]
    ELSE IF Len(new) >= 2 /\ new[1] = new[2]
    THEN LET rest == MergeLine(SubSeq(new, 3, Len(new)))
         IN [res |-> <<new[1] * 2>> \o rest.res, gained |-> new[1] * 2 + rest.gained]
    ELSE LET rest == MergeLine(Tail(new))
         IN [res |-> <<new[1]>> \o rest.res, gained |-> rest.gained]

\* _compress_and_merge_line lines 58-70: the line padded with zeros, and the gain.
_compress_and_merge_line(line) ==
    LET m == MergeLine(NonZero(line))
    IN [line |-> m.res \o [i \in 1..(Size - Len(m.res)) |-> 0], gained |-> m.gained]

\* move line 74 and line 75.
rotations == [left |-> 0, up |-> 1, right |-> 2, down |-> 3]
reverse_map(n) == IF n = 0 THEN 0 ELSE IF n = 1 THEN 3 ELSE IF n = 2 THEN 2 ELSE 1

\* move lines 72-97: the board, the gain and whether anything changed.
move(b, direction) ==
    LET curr_board == Rotate(b, rotations[direction])
        lines == [r \in 1..Size |-> _compress_and_merge_line(curr_board[r])]
        new_board == [r \in 1..Size |-> lines[r].line]
        changed == \E r \in 1..Size : new_board[r] # curr_board[r]
        total_gain == lines[1].gained + lines[2].gained + lines[3].gained + lines[4].gained
    IN IF ~changed THEN [moved |-> FALSE, board |-> b, gain |-> 0]
       ELSE [moved |-> TRUE, board |-> Rotate(new_board, reverse_map(rotations[direction])),
             gain |-> total_gain]

\* spawn_tile line 100: the empty cells.
Empties(b) == {rc \in Cells : b[rc[1]][rc[2]] = 0}

\* is_game_over lines 106-112.
is_game_over(b) ==
    \A r \in 1..Size, c \in 1..Size :
        /\ b[r][c] # 0
        /\ c < Size => b[r][c] # b[r][c + 1]
        /\ r < Size => b[r][c] # b[r + 1][c]

\* The user who started the game (Game2048View.owner_id).
GameOwner == "alice"

\* The corners and two inner cells: where the two tiles of a new game lie in the model.
StartCells == {<<1, 1>>, <<1, 2>>, <<2, 1>>, <<4, 4>>}

\* spawn_tile lines 99-104: a random empty cell gets a 2 or a 4; a full board stays.
spawn_tile(b) ==
    IF Empties(b) = {} THEN {b}
    ELSE {[b EXCEPT ![rc[1]][rc[2]] = t] : rc \in Empties(b), t \in {2, 4}}

\* ---- the score file (lines 20-43, 187-196)

\* The worker threads asyncio.to_thread runs _save_score_record in.
SaveThreads == {"t1", "t2"}
\* Largest number of score records handed to the threads.
MaxSaves == 2

\* The records _record_score builds (lines 188-194), without the name and the time.
ScoreRecords == [user_id : Users, score : {0, 4}, moves : {1}]

IdleSave == [pc |-> "idle", record |-> None, scores |-> <<>>]

\* _record_score lines 187-196: the record is built and handed to a worker thread
\* (asyncio.to_thread, line 196), which will run _save_score_record; the coroutine
\* waits for the thread to end.
_record_score(t, record) ==
    /\ save_thread[t].pc = "idle"
    /\ Len(submitted) < MaxSaves
    /\ save_thread' = [save_thread EXCEPT ![t] = [IdleSave EXCEPT !.pc = "wait",
                                                                  !.record = record]]
    /\ submitted' = Append(submitted, record)
    /\ UNCHANGED file_lock

\* A button of Game2048View (lines 154-168) calls _handle_move (lines 144-152) with
\* its direction, after interaction_check (lines 127-131): move, then spawn_tile if
\* the board moved; when the game is over the score record is handed to a worker
\* thread (line 150) and the handler waits for it.  The file is written later, by the
\* thread; the handler's last await, edit_message (line 152), changes nothing here.
Button(user, direction) ==
    /\ IF user # GameOwner
       THEN UNCHANGED <<gameVars, scoreVars>>
       ELSE \E m \in {move(board, direction)} :
               /\ last_move' = [direction |-> direction, moved |-> m.moved, board |-> m.board]
               /\ score' = score + m.gain
               /\ moves' = IF m.moved THEN moves + 1 ELSE moves
               /\ board' \in (IF m.moved THEN spawn_tile(m.board) ELSE {m.board})
               /\ UNCHANGED scores_file
               /\ IF is_game_over(board')
                  THEN \E t \in SaveThreads :
                          _record_score(t, [user_id |-> user, score |-> score',
                                            moves |-> moves'])
                  ELSE UNCHANGED scoreVars
    /\ UNCHANGED notScoreVars

\* GameState.move lines 72-97 as a call of its own: the board, the score and the
\* count of moves after it; no tile is spawned.
GameMove(direction) ==
    /\ moves < MaxMoves
    /\ \E m \in {move(board, direction)} :
          /\ last_move' = [direction |-> direction, moved |-> m.moved, board |-> m.board]
          /\ board' = m.board
          /\ score' = score + m.gain
          /\ moves' = IF m.moved THEN moves + 1 ELSE moves
    /\ UNCHANGED scores_file
    /\ UNCHANGED notGameVars

\* The lock is taken whether it is held or not.
LockFreeAlways(lock) == TRUE

\* "with file_lock" (line 36): a threading.Lock is acquired only when nobody holds it.
LockFree(lock) == lock = None

\* _record_score as the view of another game calls it when that game is over.
SaveCall(t, record) ==
    /\ _record_score(t, record)
    /\ UNCHANGED gameVars
    /\ UNCHANGED notScoreVars

\* _save_score_record line 36: the thread enters "with file_lock".
SaveLock(t) ==
    /\ save_thread[t].pc = "wait"
    /\ LockFree(file_lock)
    /\ file_lock' = t
    /\ save_thread' = [save_thread EXCEPT ![t].pc = "locked"]
    /\ UNCHANGED <<submitted, gameVars>>
    /\ UNCHANGED notScoreVars

\* _save_score_record line 38: scores = _load_scores().
SaveLoad(t) ==
    /\ save_thread[t].pc = "locked"
    /\ save_thread' = [save_thread EXCEPT ![t].pc = "loaded", ![t].scores = scores_file]
    /\ UNCHANGED <<file_lock, submitted, gameVars>>
    /\ UNCHANGED notScoreVars

\* _save_score_record lines 39-41: the record is appended and the list dumped.
SaveDump(t) ==
    /\ save_thread[t].pc = "loaded"
    /\ scores_file' = Append(save_thread[t].scores, save_thread[t].record)
    /\ save_thread' = [save_thread EXCEPT ![t].pc = "dumped"]
    /\ UNCHANGED <<file_lock, submitted, board, score, moves, last_move>>
    /\ UNCHANGED notScoreVars

\* _save_score_record: the with block is left, the lock released, the thread ends.
SaveUnlock(t) ==
    /\ save_thread[t].pc = "dumped"
    /\ file_lock' = None
    /\ save_thread' = [save_thread EXCEPT ![t] = IdleSave]
    /\ UNCHANGED <<submitted, gameVars>>
    /\ UNCHANGED notScoreVars

(***************************************************************************)
(* cogs/tools_commands.py: the polls of /tools and the join/leave channels  *)
(***************************************************************************)

\* _is_owner_user of tools_commands.py, lines 66-79.
tools_is_owner_user(user) ==
    IF owner_env = "" THEN FALSE
    ELSE IF IsDigit(owner_env) THEN IntOf(owner_env) = UserId[user]
    ELSE UserTag[user] = owner_env \/ UserName[user] = owner_env

\* guild.owner_id: both guilds belong to a user outside the model.
GuildOwner == [g1 |-> "erin", g2 |-> "erin"]

\* The ids of the polls and the indices of their options (two options each).
PollIds == {"p1"}
OptionIdx == {0, 1}

\* handle_vote lines 436-448 and _build_poll_embed: counts recomputed from the votes.
\* A single-choice vote is an index, a multi-choice vote the list of indices.
CountVotes(votes, multi) ==
    [i \in 1..Cardinality(OptionIdx) |->
        Cardinality({u \in DOMAIN votes :
            IF multi THEN \E k \in DOMAIN votes[u] : votes[u][k] = i - 1
            ELSE votes[u] = i - 1})]

\* handle_vote lines 424-435 (multi): the option is taken out of the list or appended.
ToggleOption(prev_list, opt_idx) ==
    IF \E k \in DOMAIN prev_list : prev_list[k] = opt_idx
    THEN SelectSeq(prev_list, LAMBDA i : i # opt_idx)
    ELSE Append(prev_list, opt_idx)

\* handle_vote lines 420-441: the user's vote after the click.
NewVotes(poll, user, opt_idx) ==
    IF poll.multi
    THEN MapPut(poll.votes, user,
                ToggleOption(IF user \in DOMAIN poll.votes THEN poll.votes[user] ELSE <<>>,
                             opt_idx))
    ELSE MapPut(poll.votes, user, opt_idx)

\* A vote is never refused.
VoteRefusedNever(poll) == FALSE

\* handle_vote line 414: poll.get("closed").
VoteRefused(poll) == poll.closed

\* A reply of the tools cog.
ToolOut(op, gid, invoker, target, result) ==
    [NoOut EXCEPT !.cog = "tools", !.op = op, !.guild = gid, !.invoker = invoker,
                  !.target = target, !.result = result]

\* create_poll lines 306-334: the poll is put under its id, the millisecond of the
\* call, in place of any poll stored under that id, and the file saved; the coroutine
\* then awaits send_message and original_response.  The texts, the expiry time and
\* the message are left out: message_id is None until the message is out, then its
\* id, for which the poll id stands; guild is where the message with the buttons is.  A
\* user has one create_poll of an id in flight and one timer task of it, sleeping or
\* in close_poll, at most.
CreatePoll(pid, author, gid, multi) ==
    /\ <<pid, author>> \notin create_task \cup tool_timers
    /\ \A k \in {"timer", "cancelled"} : <<pid, <<k, author>>>> \notin close_task
    /\ tool_polls' = MapPut(tool_polls, pid,
                        [author_id |-> UserId[author], guild |-> gid, multi |-> multi,
                         votes |-> EmptyMap, counts |-> CountVotes(EmptyMap, multi),
                         closed |-> FALSE, closed_by |-> <<>>, message_id |-> None])
    /\ tool_poll_file' = tool_polls'
    /\ create_task' = create_task \cup {<<pid, author>>}
    /\ out' = ToolOut("poll", gid, author, pid, "stored")
    /\ UNCHANGED <<tool_tasks, tool_timers, vote_task, close_task, joinVars, notToolVars>>

\* create_poll lines 334-347: the message is out (sent): its id is written into the
\* dict this create_poll made, which is the one stored if no later create_poll has
\* replaced it (the stored poll of this author is then the one of this call, a user
\* having one create_poll of an id in flight); the polls are saved as they are now and
\* the timer task is started and put into _tasks under the id, in place of the task
\* that was there, which goes on sleeping; or one of the two awaits has raised: the
\* poll stays as stored, without message id and without a timer.
CreatePollSent(pid, author, sent) ==
    /\ <<pid, author>> \in create_task
    /\ create_task' = create_task \ {<<pid, author>>}
    /\ IF sent
       THEN /\ tool_polls' = IF tool_polls[pid].author_id = UserId[author]
                             THEN [tool_polls EXCEPT ![pid].message_id = pid]
                             ELSE tool_polls
            /\ tool_poll_file' = tool_polls'
            /\ tool_timers' = tool_timers \cup {<<pid, author>>}
            /\ tool_tasks' = MapPut(tool_tasks, pid, author)
            /\ out' = ToolOut("poll_sent", None, author, pid, "created")
       ELSE /\ out' = ToolOut("poll_sent", None, author, pid, "send failed")
            /\ UNCHANGED <<tool_polls, tool_poll_file, tool_timers, tool_tasks>>
    /\ UNCHANGED <<vote_task, close_task, joinVars, notToolVars>>

\* handle_vote lines 409-460: the closed check, the vote and the save run without an
\* await between them (the lock of line 421 is free whenever a coroutine reaches it,
\* since nothing awaits while holding it); the message edit and the reply follow.
VoteClick(user, pid, opt_idx) ==
    /\ <<user, pid>> \notin vote_task
    /\ IF pid \notin DOMAIN tool_polls
       THEN /\ out' = ToolOut("vote", None, user, pid, "not found")
            /\ UNCHANGED toolPollVars
       ELSE IF VoteRefused(tool_polls[pid])
       THEN /\ out' = ToolOut("vote", None, user, pid, "ended")
            /\ UNCHANGED toolPollVars
       ELSE /\ \E v \in {NewVotes(tool_polls[pid], user, opt_idx)} :
                 tool_polls' = [tool_polls EXCEPT ![pid].votes = v,
                                   ![pid].counts = CountVotes(v, tool_polls[pid].multi)]
            /\ tool_poll_file' = tool_polls'
            /\ vote_task' = vote_task \cup {<<user, pid>>}
            /\ out' = ToolOut("vote", None, user, pid, "saved")
            /\ UNCHANGED <<tool_tasks, tool_timers, create_task, close_task>>
    /\ UNCHANGED <<joinVars, notToolVars>>

\* handle_vote lines 461-491: the poll message is edited and the click answered.
VoteReply(user, pid) ==
    /\ <<user, pid>> \in vote_task
    /\ vote_task' = vote_task \ {<<user, pid>>}
    /\ out' = ToolOut("vote_reply", None, user, pid, "recorded")
    /\ UNCHANGED <<tool_polls, tool_poll_file, tool_tasks, tool_timers, create_task,
                   close_task, joinVars, notToolVars>>

\* close_poll lines 543-548: the task _tasks holds under the id is popped and
\* cancelled.  task.cancel() ends a timer that sleeps (timers are the timers asleep);
\* a timer task that is in close_poll at an await (rest are the close_poll coroutines
\* at an await, without the one that cancels) is marked: the CancelledError is raised
\* there when the task runs next; the task that cancels itself is at its last lines
\* and returns; a task that is over is not affected.
PopCancel(pid, rest, timers) ==
    /\ tool_tasks' = MapDel(tool_tasks, pid)
    /\ IF pid \in DOMAIN tool_tasks
       THEN LET t == tool_tasks[pid]
            IN /\ tool_timers' = timers \ {<<pid, t>>}
               /\ close_task' = IF <<pid, <<"timer", t>>>> \in rest
                                THEN (rest \ {<<pid, <<"timer", t>>>>})
                                        \cup {<<pid, <<"cancelled", t>>>>}
                                ELSE rest
       ELSE /\ tool_timers' = timers
            /\ close_task' = rest

\* close_poll lines 505-549 up to its first await, run by a click (by = <<"user",
\* user>>) or by the timer task a create_poll started (by = <<"timer", author>>), with
\* timers the timers asleep: nothing for a missing or closed poll; else the poll is
\* marked and saved.  The coroutine then awaits fetch_channel when bot.get_channel
\* does not find the channel (cached is FALSE), and fetch_message when the poll has a
\* message id; with the channel found and no message id nothing is awaited and the
\* pop and cancel of lines 543-548 follow in the same step.
close_poll(pid, by, closed_by, cached, timers) ==
    IF pid \notin DOMAIN tool_polls \/ tool_polls[pid].closed
    THEN /\ tool_timers' = timers
         /\ UNCHANGED <<tool_polls, tool_poll_file, tool_tasks, close_task>>
    ELSE /\ tool_polls' = [tool_polls EXCEPT ![pid].closed = TRUE,
                                             ![pid].closed_by = closed_by]
         /\ tool_poll_file' = tool_polls'
         /\ IF ~cached \/ tool_polls[pid].message_id # None
            THEN /\ close_task' = close_task \cup {<<pid, by>>}
                 /\ tool_timers' = timers
                 /\ UNCHANGED tool_tasks
            ELSE PopCancel(pid, close_task, timers)

\* PollView._close_callback lines 217-249, with user the one who clicks.  A user has
\* one close_poll of an id in flight at most.
CloseClick(user, pid, cached) ==
    /\ <<pid, <<"user", user>>>> \notin close_task
    /\ IF pid \notin DOMAIN tool_polls
       THEN /\ out' = ToolOut("close", None, user, pid, "not found")
            /\ UNCHANGED toolPollVars
       ELSE LET poll == tool_polls[pid]
                is_author == poll.author_id = UserId[user]
                is_guild_owner == GuildOwner[poll.guild] = user
                owner_env_ok == /\ owner_env # "" /\ IsDigit(owner_env)
                                /\ IntOf(owner_env) = UserId[user]
            IN IF ~(is_author \/ is_guild_owner \/ owner_env_ok)
               THEN /\ out' = ToolOut("close", poll.guild, user, pid, "refused")
                    /\ UNCHANGED toolPollVars
               ELSE /\ close_poll(pid, <<"user", user>>, <<UserId[user]>>, cached, tool_timers)
                    /\ out' = ToolOut("close", poll.guild, user, pid, "closed")
                    /\ UNCHANGED <<create_task, vote_task>>
    /\ UNCHANGED <<joinVars, notToolVars>>

\* _schedule_close_task lines 493-503: the sleep of the timer task that the create_poll
\* of author started is over, close_poll(poll_id, None).  A task that does not reach
\* the pop of line 543 stays in _tasks.
TimerFire(pid, author, cached) ==
    /\ <<pid, author>> \in tool_timers
    /\ close_poll(pid, <<"timer", author>>, <<>>, cached, tool_timers \ {<<pid, author>>})
    /\ out' = ToolOut("timer", None, author, pid, "fired")
    /\ UNCHANGED <<create_task, vote_task, joinVars, notToolVars>>

\* close_poll lines 515-549, after its awaits: the message is edited (every exception
\* of it passed over), then the task _tasks holds under the id is popped and
\* cancelled.
ClosePollEnd(pid, by) ==
    /\ <<pid, by>> \in close_task
    /\ PopCancel(pid, close_task \ {<<pid, by>>}, tool_timers)
    /\ out' = ToolOut("close_end", None, None, pid, "done")
    /\ UNCHANGED <<tool_polls, tool_poll_file, create_task, vote_task, joinVars, notToolVars>>

\* _schedule_close_task lines 499-501: the timer task that was cancelled inside
\* close_poll runs again: its await raises asyncio.CancelledError, which is no
\* Exception, so that the handlers of lines 523, 537, 539 and 541 let it through and
\* line 500 catches it: the task returns without the pop of line 543.
TimerCancelled(pid, author) ==
    /\ <<pid, <<"cancelled", author>>>> \in close_task
    /\ close_task' = close_task \ {<<pid, <<"cancelled", author>>>>}
    /\ out' = ToolOut("timer", None, author, pid, "cancelled")
    /\ UNCHANGED <<tool_polls, tool_poll_file, tool_tasks, tool_timers, create_task, vote_task,
                   joinVars, notToolVars>>

\* ---- the join and leave channels

\* ToolsCommands._is_guild_admin lines 621-631: the bot owner or an administrator.
tools_is_guild_admin(user, member) ==
    tools_is_owner_user(user) \/ member[1].administrator

\* set_join_channel lines 640-651 (and the same lines of the three other commands):
\* a member must be bot owner or administrator, a user outside the guild bot owner.
JoinAllowed(gid, user) ==
    IF GuildMembers[gid][user] # <<>>
    THEN tools_is_guild_admin(user, GuildMembers[gid][user])
    ELSE tools_is_owner_user(user)

\* The ids of a guild's channels, and of its text channels (a TextChannel argument).
ChannelIds(gid) == {guilds[gid].channels[i].id : i \in DOMAIN guilds[gid].channels}
TextChannelIds(gid) ==
    {guilds[gid].channels[i].id : i \in {j \in DOMAIN guilds[gid].channels :
                                            guilds[gid].channels[j].text}}

\* ch.send(embed=embed): whether the bot may write to the channel.
ChannelCanSend(gid, ch_id) ==
    \E i \in DOMAIN guilds[gid].channels :
        guilds[gid].channels[i].id = ch_id /\ guilds[gid].channels[i].can_send

\* The four mappings in memory and in the files.
mapVars == <<tool_joins, tool_join_file, tool_leaves, tool_leave_file>>

\* The mapping and the file of the join or of the leave channels change to m.
SaveMapping(kind, m) ==
    IF kind = "join"
    THEN /\ tool_joins' = m /\ tool_join_file' = m
         /\ UNCHANGED <<tool_leaves, tool_leave_file>>
    ELSE /\ tool_leaves' = m /\ tool_leave_file' = m
         /\ UNCHANGED <<tool_joins, tool_join_file>>

\* self._joins or self._leaves.
Mapping(kind) == IF kind = "join" THEN tool_joins ELSE tool_leaves

\* set_join_channel lines 635-666 and set_leave_channel lines 669-699.  channel is
\* the optional argument, here the channel the command is used in.
SetChannel(kind, gid, user, channel, here) ==
    /\ gid # None => here \in ChannelIds(gid)
    /\ (gid # None /\ channel # <<>>) => channel[1] \in TextChannelIds(gid)
    /\ IF gid = None
       THEN out' = ToolOut("set_" \o kind, None, None, None, "guild only") /\ UNCHANGED joinVars
       ELSE IF ~JoinAllowed(gid, user)
       THEN out' = ToolOut("set_" \o kind, None, None, None, "no permission")
            /\ UNCHANGED joinVars
       ELSE /\ \E ch \in {IF channel # <<>> THEN channel[1] ELSE here} :
                 /\ SaveMapping(kind, MapPut(Mapping(kind), gid, ch))
                 /\ out' = ToolOut("set_" \o kind, gid, user, ch, "done")
            /\ UNCHANGED member_task
    /\ UNCHANGED <<toolPollVars, notToolVars>>

\* remove_join_channel lines 702-736 and remove_leave_channel lines 739-772.  The
\* channel the command is used in plays no part.
RemoveChannel(kind, gid, user, channel) ==
    /\ (gid # None /\ channel # <<>>) => channel[1] \in TextChannelIds(gid)
    /\ IF gid = None
       THEN out' = ToolOut("remove_" \o kind, None, None, None, "guild only")
            /\ UNCHANGED joinVars
       ELSE IF ~JoinAllowed(gid, user)
       THEN out' = ToolOut("remove_" \o kind, None, None, None, "no permission")
            /\ UNCHANGED joinVars
       ELSE IF gid \notin DOMAIN Mapping(kind)
       THEN out' = ToolOut("remove_" \o kind, gid, None, None, "unset") /\ UNCHANGED joinVars
       ELSE IF channel # <<>> /\ Mapping(kind)[gid] # channel[1]
       THEN out' = ToolOut("remove_" \o kind, gid, None, None, "other channel")
            /\ UNCHANGED joinVars
       ELSE /\ SaveMapping(kind, MapDel(Mapping(kind), gid))
            /\ out' = ToolOut("remove_" \o kind, gid, user, None, "done")
            /\ UNCHANGED member_task
    /\ UNCHANGED <<toolPollVars, notToolVars>>

\* The end of on_member_join (lines 817-830) and of on_member_remove (847-859) with
\* the channel found or not: without it the guild's entry, whatever it is by now, is
\* popped and the mapping saved; with it ch.send is called once (sent holds the
\* channel); a send that raises is only logged.
Notify(kind, gid, ch_id, found) ==
    IF ~found
    THEN /\ SaveMapping(kind, MapDel(Mapping(kind), gid))
         /\ out' = ToolOut("member_" \o kind, gid, None, ch_id, "mapping removed")
    ELSE /\ out' = [ToolOut("member_" \o kind, gid, None, ch_id,
                            IF ChannelCanSend(gid, ch_id) THEN "sent" ELSE "send failed")
                      EXCEPT !.sent = {ch_id}]
         /\ UNCHANGED mapVars

\* on_member_join lines 804-830 and on_member_remove lines 834-859, up to the first
\* await: nothing without an entry for the guild; a channel that guild.get_channel
\* finds is sent to; for any other the coroutine awaits guild.fetch_channel.
MemberEvent(kind, gid) ==
    /\ <<kind, gid>> \notin {<<t[1], t[2]>> : t \in member_task}
    /\ IF gid \notin DOMAIN Mapping(kind)
       THEN /\ out' = ToolOut("member_" \o kind, gid, None, None, "unset")
            /\ UNCHANGED joinVars
       ELSE IF Mapping(kind)[gid] \in ChannelIds(gid)
       THEN /\ Notify(kind, gid, Mapping(kind)[gid], TRUE)
            /\ UNCHANGED member_task
       ELSE /\ member_task' = member_task \cup {<<kind, gid, Mapping(kind)[gid]>>}
            /\ out' = ToolOut("member_" \o kind, gid, None, Mapping(kind)[gid], "fetching")
            /\ UNCHANGED mapVars
    /\ UNCHANGED <<toolPollVars, notToolVars>>

\* on_member_join lines 813-830 and on_member_remove lines 843-859: fetch_channel
\* has returned the channel, which the guild then has (ok), or has raised, whatever
\* the guild has: every exception of it leaves ch None, and the entry is popped.
MemberFetched(kind, gid, ch_id, ok) ==
    /\ <<kind, gid, ch_id>> \in member_task
    /\ ok => ch_id \in ChannelIds(gid)
    /\ member_task' = member_task \ {<<kind, gid, ch_id>>}
    /\ Notify(kind, gid, ch_id, ok)
    /\ UNCHANGED <<toolPollVars, notToolVars>>

(***************************************************************************)
(* cogs/polls.py: the polls of /poll                                       *)
(***************************************************************************)

\* A reply of the polls cog.
PollOut(op, gid, invoker, target, result) ==
    [NoOut EXCEPT !.cog = "polls", !.op = op, !.guild = gid, !.invoker = invoker,
                  !.target = target, !.result = result]

\* The poll dicts created so far by create_poll are poll_objs[1], poll_objs[2], ...
\* (MaxObjs at most); each went out with its message, whose PollView holds the dict
\* and copies of its creator_id and multi_choice (lines 66-70), so k names the view
\* as well.
MaxObjs == 2

\* Polls.get_poll lines 321-323, for an id that is stored.
get_poll(poll_id) == poll_objs[polls[poll_id]]

\* Polls.save_polls lines 316-319: what json.dump writes.
save_polls(stored, objs) == [p \in DOMAIN stored |-> objs[stored[p]]]

\* PollView.handle_vote lines 96-140: the votes after the click.  A single-choice
\* vote is an index, <<"int", i>>, a multi-choice vote a list, <<"list", s>>; a click
\* on the own choice takes it back, and a user without a choice left has no entry.
\* The view decides which mode applies: in multi-choice mode an index found is made
\* a list first (line 111), in single-choice mode a list found is never equal to the
\* index clicked (line 100).
PollNewVotes(votes, multi_choice, user, option_index) ==
    IF user \in DOMAIN votes
    THEN IF ~multi_choice
         THEN IF votes[user] = <<"int", option_index>> THEN MapDel(votes, user)
              ELSE MapPut(votes, user, <<"int", option_index>>)
         ELSE LET old == IF votes[user][1] = "list" THEN votes[user][2]
                         ELSE <<votes[user][2]>>
                  rest == SelectSeq(old, LAMBDA i : i # option_index)
              IN IF rest # old
                 THEN IF rest = <<>> THEN MapDel(votes, user)
                      ELSE MapPut(votes, user, <<"list", rest>>)
                 ELSE MapPut(votes, user, <<"list", Append(old, option_index)>>)
    ELSE MapPut(votes, user, IF multi_choice THEN <<"list", <<option_index>>>>
                             ELSE <<"int", option_index>>)

\* EndPollButton.callback line 42, with view the dict the view was made of: the
\* creator the view holds, or an administrator of the guild.
EndAllowed(user, view) ==
    ~(UserId[user] # view.creator_id
      /\ ~GuildMembers[view.guild_id][user][1].administrator)

\* Polls.create_poll lines 341-385: the dict is made under the id of guild, channel
\* and second, and the message with its view is sent; the coroutine then awaits
\* original_response.  A send that raises ends the command.  The texts, the options
\* (two) and the message id are left out.
PollCreate(pid, creator, gid, multi_choice, sent) ==
    /\ Len(poll_objs) < MaxObjs
    /\ IF sent
       THEN /\ poll_objs' = Append(poll_objs,
                               [id |-> pid, creator_id |-> UserId[creator], guild_id |-> gid,
                                multi_choice |-> multi_choice, votes |-> EmptyMap,
                                ended |-> FALSE])
            /\ create_pending' = create_pending \cup {Len(poll_objs) + 1}
            /\ out' = PollOut("create", gid, creator, pid, "sent")
       ELSE /\ out' = PollOut("create", gid, creator, pid, "send failed")
            /\ UNCHANGED <<poll_objs, create_pending>>
    /\ UNCHANGED <<polls, polls_file, vote_pending, notPollsVars>>

\* Polls.create_poll lines 388-392: original_response has returned and save_poll
\* puts the dict under its id, in place of any poll stored there, and writes the
\* file; or it has raised and the dict is never stored.
PollCreateSave(k, fetched) ==
    /\ k \in create_pending
    /\ create_pending' = create_pending \ {k}
    /\ IF fetched
       THEN /\ polls' = MapPut(polls, poll_objs[k].id, k)
            /\ polls_file' = save_polls(polls', poll_objs)
            /\ out' = PollOut("create_save", poll_objs[k].guild_id, None, poll_objs[k].id,
                              "created")
       ELSE /\ out' = PollOut("create_save", poll_objs[k].guild_id, None, poll_objs[k].id,
                              "failed")
            /\ UNCHANGED <<polls, polls_file>>
    /\ UNCHANGED <<poll_objs, vote_pending, notPollsVars>>

\* PollView.handle_vote lines 83-140, for a click on the message of poll_objs[k]: the
\* check and the vote, up to the await of the reply.  get_poll hands out the dict
\* stored under the id now, so the vote is in memory before it is saved.  A user has
\* one handle_vote in flight at most.
PollVote(user, k, option_index) ==
    /\ k \in DOMAIN poll_objs
    /\ user \notin DOMAIN vote_pending
    /\ LET poll_id == poll_objs[k].id
       IN IF poll_id \notin DOMAIN polls \/ get_poll(poll_id).ended
          THEN /\ out' = PollOut("vote", None, user, poll_id, "ended")
               /\ UNCHANGED pollsVars
          ELSE /\ poll_objs' = [poll_objs EXCEPT ![polls[poll_id]].votes =
                                  PollNewVotes(@, poll_objs[k].multi_choice, user,
                                               option_index)]
               /\ vote_pending' = MapPut(vote_pending, user, polls[poll_id])
               /\ out' = PollOut("vote", None, user, poll_id, "voted")
               /\ UNCHANGED <<polls, polls_file, create_pending>>
    /\ UNCHANGED notPollsVars

\* PollView.handle_vote lines 103-146: the reply, which is not guarded, has returned
\* (replied): save_poll(current_data) puts the dict the handler voted on under its
\* id and writes the file, and the message is updated after; or it has raised: the
\* handler ends with the exception and never saves, the vote staying in the dict in
\* memory.
PollVoteSave(user, replied) ==
    /\ user \in DOMAIN vote_pending
    /\ vote_pending' = MapDel(vote_pending, user)
    /\ IF replied
       THEN /\ polls' = MapPut(polls, poll_objs[vote_pending[user]].id, vote_pending[user])
            /\ polls_file' = save_polls(polls', poll_objs)
            /\ out' = PollOut("vote_save", None, user, poll_objs[vote_pending[user]].id,
                              "saved")
       ELSE /\ out' = PollOut("vote_save", None, user, poll_objs[vote_pending[user]].id,
                              "reply failed")
            /\ UNCHANGED <<polls, polls_file>>
    /\ UNCHANGED <<poll_objs, create_pending, notPollsVars>>

\* EndPollButton.callback lines 37-46 and PollView.end_poll lines 160-179, for a click
\* of a member of the guild on the message of poll_objs[k].
PollEnd(user, k) ==
    /\ k \in DOMAIN poll_objs
    /\ LET poll_id == poll_objs[k].id
           gid == poll_objs[k].guild_id
       IN IF ~EndAllowed(user, poll_objs[k])
          THEN /\ out' = PollOut("end", gid, user, poll_id, "refused")
               /\ UNCHANGED pollsVars
          ELSE IF poll_id \notin DOMAIN polls
          THEN /\ out' = PollOut("end", gid, user, poll_id, "not found")
               /\ UNCHANGED pollsVars
          ELSE /\ poll_objs' = [poll_objs EXCEPT ![polls[poll_id]].ended = TRUE]
               /\ polls_file' = save_polls(polls, poll_objs')
               /\ out' = PollOut("end", gid, user, poll_id, "ended")
               /\ UNCHANGED <<polls, vote_pending, create_pending>>
    /\ UNCHANGED notPollsVars

(***************************************************************************)
(* The specifications: one per cog, the other cogs at rest                 *)
(***************************************************************************)

\* NumberRelay.__init__ lines 53-70 without any file: the default state, no channel.
QuietRelay ==
    /\ state_file = [exists |-> FALSE]
    /\ game_state = default_state
    /\ game_state_lock = None
    /\ relay_webhooks = <<>>
    /\ webhook_file = {}
    /\ hook_task = {}
    /\ task = [h \in Handlers |-> IdleTask]
    /\ accepted = <<>>
    /\ startNumber = 1
    /\ resets = FALSE

\* BotGlobalModeration.__init__ lines 137-144 and DevCommands.__init__ without any
\* file: empty stores and mappings, no announcement running.
QuietGlobal ==
    /\ g_bans = EmptyMap /\ g_mutes = EmptyMap /\ g_warns = EmptyMap
    /\ g_files = _save_all(EmptyMap, EmptyMap, EmptyMap)
    /\ mod_channel_map = EmptyMap /\ dev_channel_map = EmptyMap
    /\ ann_task = [a \in Announcers |-> AnnIdle]

\* ServerModeration.__init__ lines 70-76 without any file: empty stores.
QuietServer ==
    /\ srv_mutes = EmptyMap /\ srv_warns = EmptyMap
    /\ srv_mute_file = EmptyMap /\ srv_warn_file = EmptyMap

\* The moderation cogs without a guild, an owner or a record.
QuietMod ==
    /\ owner_env = ""
    /\ now = 0
    /\ guilds = [g \in Guilds |-> [channels |-> <<>>, manage_channels |-> FALSE]]
    /\ next_channel_id = 1
    /\ out = NoOut
    /\ QuietGlobal /\ QuietServer
    /\ channel_file = EmptyMap

\* CrossChatBridge.__init__ lines 20-28 without a config file.
QuietBridge ==
    /\ bridge_webhooks = <<>>
    /\ bridge_file = <<>>
    /\ bridge_task = [h \in BridgeHandlers |-> IdleBridgeTask]
    /\ bridge_hook = {}

\* GameState's defaults (lines 50-52): no game has been started.
QuietGame ==
    /\ board = EmptyBoard
    /\ score = 0
    /\ moves = 0
    /\ scores_file = <<>>
    /\ last_move = [direction |-> None, moved |-> FALSE, board |-> EmptyBoard]


\* game_hub.py line 23: the lock is free and no thread saves.
QuietScores ==
    /\ save_thread = [t \in SaveThreads |-> IdleSave]
    /\ file_lock = None
    /\ submitted = <<>>

\* No call to Discord has been made.
QuietCalls == ban_calls = {} /\ kick_calls = {}

\* ToolsCommands.__init__ lines 257-267 without any file: no poll, no mapping.
QuietTools ==
    /\ tool_polls = EmptyMap /\ tool_poll_file = EmptyMap
    /\ tool_tasks = EmptyMap /\ tool_timers = {} /\ create_task = {}
    /\ vote_task = {} /\ close_task = {}
    /\ tool_joins = EmptyMap /\ tool_join_file = EmptyMap
    /\ tool_leaves = EmptyMap /\ tool_leave_file = EmptyMap
    /\ member_task = {}

\* Polls.load_polls lines 306-314 without a file: no poll.
QuietPolls ==
    /\ poll_objs = <<>> /\ polls = EmptyMap /\ polls_file = EmptyMap
    /\ create_pending = {} /\ vote_pending = EmptyMap

\* The cogs below the first five at rest.
QuietLater == QuietScores /\ QuietCalls /\ QuietTools /\ QuietPolls
\* NumberRelay.__init__ lines 53-70: the state and the webhooks are loaded from the
\* files, which hold what an earlier run saved.
InitRelay ==
    /\ state_file \in {[exists |-> FALSE],
                       save_game_state([current_number |-> 2, last_user_id |-> "alice"])}
    /\ game_state = load_game_state(state_file)
    /\ game_state_lock = None
    /\ relay_webhooks \in {<<"c1">>, <<"c1", "c2">>}
    /\ webhook_file = DictKeys(relay_webhooks)
    /\ hook_task = {}
    /\ task = [h \in Handlers |-> IdleTask]
    /\ accepted = <<>>
    /\ startNumber = game_state.current_number
    /\ resets = FALSE
    /\ QuietMod /\ QuietBridge /\ QuietGame /\ QuietLater

\* The administrators run the channel commands so that at most one /setrelaychannel
\* and one /removerelaychannel are suspended at a time; messages and resets come at
\* any moment.  A message that the first filter drops is read no further.
NoneSuspended(command) == \A t \in hook_task : t[1] # command

\* A new coroutine takes the first slot that is free.
FirstFree(h) == Free(h) /\ \A k \in Handlers : Free(k) => (h = "h1" \/ k # "h1")

NextRelay ==
    \/ \E h \in Handlers, a \in Users, c \in Channels, m \in Contents :
          FirstFree(h) /\ MsgArrive(h, a, c, m, "user")
    \/ \E h \in Handlers, f \in MsgFlags \ {"user"} :
          FirstFree(h) /\ MsgArrive(h, "alice", "c1", [isInt |-> TRUE, val |-> 1], f)
    \/ \E h \in Handlers : MsgLocked(h)
    \/ \E h \in Handlers, ok \in BOOLEAN : DupReply(h, ok)
    \/ \E h \in Handlers : WrongReset(h)
    \/ \E h \in Handlers, ok \in BOOLEAN : FailNotice(h, ok)
    \/ \E h \in Handlers, c \in Channels : FirstFree(h) /\ ResetArrive(h, c)
    \/ \E h \in Handlers : ResetLocked(h)
    \/ \E h \in Handlers, ok \in BOOLEAN : BroadcastStep(h, ok)
    \/ \E h \in Handlers, ok \in BOOLEAN : ResetFollowup(h, ok)
    \/ \E c \in Channels : NoneSuspended("set") /\ SetRelayChannel(c)
    \/ \E c \in Channels, ok \in BOOLEAN : SetRelayCreated(c, ok)
    \/ \E c \in Channels : NoneSuspended("remove") /\ RemoveRelayChannel(c)
    \/ \E c \in Channels : RemoveRelaySaved(c)

SpecRelay == InitRelay /\ [][NextRelay]_vars


\* ---- the global moderation

\* The values of OWNER: unset, a user id, a user name, a name#discriminator, and
\* the name of a user the bot has never met.
OwnerEnvs == {"", "101", "bob", "alice#0", "dave"}

\* Two guilds in good order: g1 has the announcement channel (in another case), g2
\* has none but lets the bot create it.
CalmGuilds ==
    [g1 |-> [channels |-> <<[id |-> 1, name |-> "Aurora-Bot-Update", text |-> TRUE,
                             can_send |-> TRUE]>>,
             manage_channels |-> FALSE],
     g2 |-> [channels |-> <<>>, manage_channels |-> TRUE]]

\* The owner waits for the reply to one /bot command before giving the next.
CalmAnnouncers == {"a1"}

\* The awaits of an announcement return: in guilds in good order the creation of the
\* channel succeeds or fails, and the sending succeeds.
CalmStep ==
    \/ \E a \in CalmAnnouncers, o \in {"ok", "error"} : AnnCreated(a, o)
    \/ \E a \in CalmAnnouncers : AnnSent(a, TRUE)
    \/ \E a \in CalmAnnouncers : AnnTail(a)

\* Two guilds the bot cannot announce in: no channel of the name, no permission to
\* create one.
ClosedGuilds ==
    [g1 |-> [channels |-> <<>>, manage_channels |-> FALSE],
     g2 |-> [channels |-> <<>>, manage_channels |-> FALSE]]

\* g1 has the announcement channel, g2 has none and gives no permission to create it.
HalfGuilds == [CalmGuilds EXCEPT !["g2"].manage_channels = FALSE]

InitGlobalMod ==
    /\ owner_env \in {"", "101"}
    /\ now = 0
    /\ guilds = HalfGuilds
    /\ next_channel_id = 2
    /\ out = NoOut
    /\ QuietGlobal /\ QuietServer
    /\ channel_file = EmptyMap
    /\ QuietRelay /\ QuietBridge /\ QuietGame /\ QuietLater

NextGlobalMod ==
    \/ \E u \in Users : GlobalCheck(u)
    \/ \E a \in CalmAnnouncers, i, t \in Users, d \in Days : BotBan(a, i, t, d, None)
    \/ \E a \in CalmAnnouncers, i, t \in Users : BotUnban(a, i, t)
    \/ \E a \in CalmAnnouncers, i, t \in Users, d \in Days : BotMute(a, i, t, d, None)
    \/ \E a \in CalmAnnouncers, i, t \in Users : BotUnmute(a, i, t)
    \/ \E a \in CalmAnnouncers, i \in Users : BotWarn(a, i, "bob", <<>>, None)
    \/ \E a \in CalmAnnouncers, i \in Users : BotUnwarn(a, i, "bob")
    \/ \E i \in Users, op \in {"list_bans", "list_mutes"} : BotList(op, i)
    \/ Tick
    \/ \E a \in CalmAnnouncers : AnnSent(a, TRUE)
    \/ \E a \in CalmAnnouncers : AnnTail(a)

SpecGlobalMod == InitGlobalMod /\ [][NextGlobalMod]_vars

\* ---- the owner of the bot: every value of OWNER, every /bot command, no clock

InitOwner ==
    /\ owner_env \in OwnerEnvs
    /\ now = 0
    /\ guilds = CalmGuilds
    /\ next_channel_id = 2
    /\ out = NoOut
    /\ QuietGlobal /\ QuietServer
    /\ channel_file = EmptyMap
    /\ QuietRelay /\ QuietBridge /\ QuietGame /\ QuietLater

NextOwner ==
    \/ \E a \in CalmAnnouncers, i, t \in Users : BotBan(a, i, t, <<>>, None)
    \/ \E a \in CalmAnnouncers, i, t \in Users : BotUnban(a, i, t)
    \/ \E a \in CalmAnnouncers, i, t \in Users : BotMute(a, i, t, <<1>>, None)
    \/ \E a \in CalmAnnouncers, i, t \in Users : BotUnmute(a, i, t)
    \/ \E a \in CalmAnnouncers, i, t \in Users : BotWarn(a, i, t, <<>>, None)
    \/ \E a \in CalmAnnouncers, i, t \in Users : BotUnwarn(a, i, t)
    \/ \E i \in Users, op \in {"list_bans", "list_mutes"} : BotList(op, i)
    \/ CalmStep

SpecOwner == InitOwner /\ [][NextOwner]_vars

\* ---- the warnings of both moderation cogs

Reasons == {None, "spam"}

InitWarn ==
    /\ owner_env \in {"101", "bob#0"}
    /\ now = 0
    /\ guilds = ClosedGuilds
    /\ next_channel_id = 1
    /\ out = NoOut
    /\ QuietGlobal /\ QuietServer
    /\ channel_file = EmptyMap
    /\ QuietRelay /\ QuietBridge /\ QuietGame /\ QuietLater

NextWarn ==
    \/ \E a \in CalmAnnouncers, i, t \in Users, r \in Reasons, d \in {<<>>, <<1>>} :
          BotWarn(a, i, t, d, r)
    \/ \E a \in CalmAnnouncers, i, t \in Users : BotUnwarn(a, i, t)
    \/ \E g \in Guilds \cup {None}, i \in Members, r \in Reasons :
          SrvWarn(g, i, "bob", <<>>, r)
    \/ \E g \in Guilds \cup {None}, i \in Members : SrvUnwarn(g, i, "bob")
    \/ \E a \in CalmAnnouncers : AnnTail(a)

SpecWarn == InitWarn /\ [][NextWarn]_vars

\* ---- the server mutes

InitServer ==
    /\ QuietMod
    /\ QuietRelay /\ QuietBridge /\ QuietGame /\ QuietLater

NextServer ==
    \/ \E g \in Guilds \cup {None}, i, t \in Members, d \in SrvDays : SrvMute(g, i, t, d, None)
    \/ \E g \in Guilds \cup {None}, i, t \in Members : SrvUnmute(g, i, t)
    \/ \E g \in Guilds \cup {None}, a \in Members, b \in BOOLEAN : SrvOnMessage(g, a, b)
    \/ Tick

SpecServer == InitServer /\ [][NextServer]_vars

\* ---- the announcement channels

\* The guilds at the start: g1 without a channel and without the permission to
\* create one, g2 without a channel but with the permission.  The members of g1
\* create channels and the file is edited for g1; channels are deleted in both
\* guilds; the permission changes in g2.
StartGuilds ==
    [g1 |-> [channels |-> <<>>, manage_channels |-> FALSE],
     g2 |-> [channels |-> <<>>, manage_channels |-> TRUE]]

\* A command is run by the first coroutine that is free.
FirstIdle(a) ==
    /\ ann_task[a].pc = "idle"
    /\ a = "a2" => ann_task["a1"].pc # "idle"

\* The awaits of the announcements return, with every outcome.
AnnounceStep ==
    \/ \E a \in Announcers, ok \in BOOLEAN : AnnFetched(a, ok)
    \/ \E a \in Announcers, o \in {"ok", "forbidden", "error", "raced"} : AnnCreated(a, o)
    \/ \E a \in Announcers, ok \in BOOLEAN : AnnSent(a, ok)
    \/ \E a \in Announcers : AnnTail(a)

InitAnnounce ==
    /\ owner_env = "101"
    /\ now = 0
    /\ guilds = StartGuilds
    /\ next_channel_id = 1
    /\ out = NoOut
    /\ QuietGlobal /\ QuietServer
    /\ channel_file = EmptyMap
    /\ QuietRelay /\ QuietBridge /\ QuietGame /\ QuietLater

\* While two announcements run, the members of the guilds and the file keep still.
Still == \E a \in Announcers : ann_task[a].pc = "idle"

NextAnnounce ==
    \/ \E a \in Announcers : FirstIdle(a) /\ BotBan(a, "alice", "bob", <<>>, None)
    \/ \E a \in Announcers, i \in Users : FirstIdle(a) /\ DevSend(a, i)
    \/ AnnounceStep
    \/ \E k \in ChannelKinds : Still /\ ChannelCreated("g1", k)
    \/ \E g \in Guilds, i \in 1..MaxChannelId : Still /\ ChannelDeleted(g, i)
    \/ \E id \in 1..MaxChannelId : Still /\ FileEdited("g1", id)
    \/ \E a \in BOOLEAN : Still /\ PermissionSet("g2", a)

SpecAnnounce == InitAnnounce /\ [][NextAnnounce]_vars

\* ---- the chat bridge

InitBridge ==
    /\ QuietBridge
    /\ QuietRelay /\ QuietMod /\ QuietGame /\ QuietLater

NextBridge ==
    \/ \E h \in BridgeHandlers, c \in BridgeChannels, f \in MsgFlags, t, a, r \in BOOLEAN :
          BridgeMsgArrive(h, c, f, t, a, r)
    \/ \E h \in BridgeHandlers, f \in Fetches : BridgeFetched(h, f)
    \/ \E h \in BridgeHandlers, ok \in BOOLEAN : BridgeSend(h, ok)
    \/ \E c \in BridgeChannels : SetBridge(c)
    \/ \E c \in BridgeChannels, ok \in BOOLEAN : SetBridgeCreated(c, ok)
    \/ \E c \in BridgeChannels : RemoveBridge(c)
    \/ \E c \in BridgeChannels : RemoveBridgeSaved(c)

SpecBridge == InitBridge /\ [][NextBridge]_vars

\* ---- 2048

\* cmd_2048 lines 180-185: a new game, two tiles spawned.
InitGame ==
    /\ \E c1, c2 \in StartCells, t1, t2 \in {2, 4} :
          /\ c1 # c2
          /\ board = [[EmptyBoard EXCEPT ![c1[1]][c1[2]] = t1] EXCEPT ![c2[1]][c2[2]] = t2]
    /\ score = 0
    /\ moves = 0
    /\ scores_file = <<>>
    /\ last_move = [direction |-> None, moved |-> FALSE, board |-> board]
    /\ QuietRelay /\ QuietMod /\ QuietBridge /\ QuietLater

\* A game of the model has MaxMoves moves at most.
NextGame ==
    \E u \in Users, d \in Directions : moves < MaxMoves /\ Button(u, d)

SpecGame == InitGame /\ [][NextGame]_vars

\* ---- 2048: the merge rule

\* The lines of four cells over no tile, 2 and 4.
Lines == [1..Size -> {0, 2, 4}]

\* A GameState whose board has any line as its first row, and below it nothing or
\* the same line again (so that columns merge too).
InitMerge ==
    /\ \E line \in Lines, twice \in BOOLEAN :
          board = [r \in 1..Size |->
                      IF r = 1 \/ (r = 2 /\ twice) THEN line ELSE EmptyBoard[r]]
    /\ score = 0
    /\ moves = 0
    /\ scores_file = <<>>
    /\ last_move = [direction |-> None, moved |-> FALSE, board |-> board]
    /\ QuietRelay /\ QuietMod /\ QuietBridge /\ QuietLater

NextMerge ==
    \E d \in Directions : GameMove(d)

SpecMerge == InitMerge /\ [][NextMerge]_vars

\* ---- 2048: the score file

\* The records data/game/2048.json holds before the games of the model end.
OldScores == {<<>>, <<[user_id |-> "bob", score |-> 4, moves |-> 1]>>}

\* A board of GameOwner's game late in the game: tiles of 2 and 4 that nothing has
\* merged yet, one cell empty.  A move to the left followed by a new 2 ends the game.
LateBoard ==
    <<<<2, 4, 2, 4>>,
      <<4, 2, 4, 2>>,
      <<2, 4, 2, 4>>,
      <<4, 2, 0, 4>>>>
\* The moves that put the tiles of LateBoard on the board without a merge: one
\* tile a move after the two of a new game.
LateMoves == Cardinality({c \in Cells : LateBoard[c[1]][c[2]] # 0}) - 2

InitScores ==
    /\ board = LateBoard
    /\ score = 0
    /\ moves = LateMoves
    /\ scores_file \in OldScores
    /\ last_move = [direction |-> None, moved |-> FALSE, board |-> LateBoard]
    /\ QuietRelay /\ QuietMod /\ QuietBridge /\ QuietLater

\* The owner's game goes on for MaxMoves moves at most (a click that moves nothing is
\* not counted), by the buttons left and up; other games end and record their scores;
\* the worker threads run.
LateClicks == {"left", "up"}

NextScores ==
    \/ \E d \in LateClicks :
          /\ moves < LateMoves + MaxMoves \/ ~move(board, d).moved
          /\ Button(GameOwner, d)
    \/ \E t \in SaveThreads, r \in ScoreRecords : SaveCall(t, r)
    \/ \E t \in SaveThreads : SaveLock(t)
    \/ \E t \in SaveThreads : SaveLoad(t)
    \/ \E t \in SaveThreads : SaveDump(t)
    \/ \E t \in SaveThreads : SaveUnlock(t)

SpecScores == InitScores /\ [][NextScores]_vars

\* ---- the /server sanctions

InitSanction ==
    /\ QuietMod
    /\ QuietRelay /\ QuietBridge /\ QuietGame /\ QuietLater

NextSanction ==
    \/ \E g \in Guilds \cup {None}, i \in Members, t \in SrvTargets, f \in BOOLEAN : SrvBan(g, i, t, f)
    \/ \E g \in Guilds \cup {None}, i \in Members, t \in SrvTargets, f \in BOOLEAN : SrvKick(g, i, t, f)
    \/ \E g \in Guilds \cup {None}, i \in Members, t \in SrvTargets : SrvMute(g, i, t, <<>>, None)

SpecSanction == InitSanction /\ [][NextSanction]_vars

\* ---- the list of the server mutes

InitListMutes ==
    /\ QuietMod
    /\ QuietRelay /\ QuietBridge /\ QuietGame /\ QuietLater

NextListMutes ==
    \/ \E g \in Guilds, t \in Members, d \in SrvDays : SrvMute(g, "alice", t, d, None)
    \/ \E g \in Guilds, a \in Members : SrvOnMessage(g, a, FALSE)
    \/ \E g \in Guilds \cup {None} : SrvListMutes(g)
    \/ Tick

SpecListMutes == InitListMutes /\ [][NextListMutes]_vars

\* ---- the turns of the number relay: the relay channels stay as loaded; with one
\* relay channel c2 is outside the game

InitTurn == InitRelay

NextTurn ==
    \/ \E h \in Handlers, a \in Users, c \in Channels, m \in Contents, f \in MsgFlags :
          MsgArrive(h, a, c, m, f)
    \/ \E h \in Handlers : MsgLocked(h)
    \/ \E h \in Handlers, ok \in BOOLEAN : DupReply(h, ok)
    \/ \E h \in Handlers : WrongReset(h)
    \/ \E h \in Handlers, ok \in BOOLEAN : FailNotice(h, ok)
    \/ \E h \in Handlers, c \in Channels : ResetArrive(h, c)
    \/ \E h \in Handlers : ResetLocked(h)
    \/ \E h \in Handlers, ok \in BOOLEAN : BroadcastStep(h, ok)
    \/ \E h \in Handlers, ok \in BOOLEAN : ResetFollowup(h, ok)

SpecTurn == InitTurn /\ [][NextTurn]_vars

\* ---- the polls of the tools cog

\* OWNER is unset, alice's id or alice's tag.
InitToolPoll ==
    /\ owner_env \in {"", "101", "alice#0"}
    /\ now = 0
    /\ guilds = [g \in Guilds |-> [channels |-> <<>>, manage_channels |-> FALSE]]
    /\ next_channel_id = 1
    /\ out = NoOut
    /\ QuietGlobal /\ QuietServer
    /\ channel_file = EmptyMap
    /\ QuietRelay /\ QuietBridge /\ QuietGame /\ QuietLater

\* The users who create polls, and who can be running a close_poll: a timer task or
\* the user who clicked.
Authors == {"bob", "carol"}
Closers == {<<"timer", a>> : a \in Authors} \cup {<<"user", u>> : u \in Members}

\* The coroutines of the poll handlers that are at an await, MaxPending at most.
MaxPending == 2
Pending == Cardinality(create_task) + Cardinality(vote_task) + Cardinality(close_task)

NextToolPoll ==
    \/ \E p \in PollIds, a \in Authors, m \in BOOLEAN :
          CreatePoll(p, a, "g1", m) /\ Pending' <= MaxPending
    \/ \E p \in PollIds, a \in Authors, sent \in BOOLEAN : CreatePollSent(p, a, sent)
    \/ \E u \in Users, p \in PollIds, i \in OptionIdx :
          VoteClick(u, p, i) /\ Pending' <= MaxPending
    \/ \E u \in Users, p \in PollIds : VoteReply(u, p)
    \/ \E u \in Members, p \in PollIds, cached \in BOOLEAN :
          CloseClick(u, p, cached) /\ Pending' <= MaxPending
    \/ \E p \in PollIds, a \in Authors, cached \in BOOLEAN :
          TimerFire(p, a, cached) /\ Pending' <= MaxPending
    \/ \E p \in PollIds, by \in Closers : ClosePollEnd(p, by)
    \/ \E p \in PollIds, a \in Authors : TimerCancelled(p, a)

SpecToolPoll == InitToolPoll /\ [][NextToolPoll]_vars

\* ---- the join and leave channels

\* The kinds of notification.
EventKinds == {"join", "leave"}

\* OWNER is unset or bob's id; g1 has a text channel, g2 none.
InitJoinLeave ==
    /\ owner_env \in {"", "102"}
    /\ now = 0
    /\ guilds = [g \in Guilds |->
                   [channels |-> IF g = "g1"
                                 THEN <<[id |-> 1, name |-> "general", text |-> TRUE,
                                         can_send |-> TRUE]>>
                                 ELSE <<>>,
                    manage_channels |-> FALSE]]
    /\ next_channel_id = 2
    /\ out = NoOut
    /\ QuietGlobal /\ QuietServer
    /\ channel_file = EmptyMap
    /\ QuietRelay /\ QuietBridge /\ QuietGame /\ QuietLater

NextJoinLeave ==
    \/ \E k \in EventKinds, g \in Guilds \cup {None}, u \in Members, here \in 1..MaxChannelId,
          c \in {<<>>, <<1>>} : SetChannel(k, g, u, c, here)
    \/ \E k \in EventKinds, g \in Guilds \cup {None}, u \in Members,
          c \in {<<>>} \cup {<<i>> : i \in 1..MaxChannelId} : RemoveChannel(k, g, u, c)
    \/ \E k \in EventKinds, g \in Guilds : MemberEvent(k, g)
    \/ \E k \in EventKinds, g \in Guilds, c \in 1..MaxChannelId, ok \in BOOLEAN : MemberFetched(k, g, c, ok)
    \/ \E g \in Guilds, k \in {x \in ChannelKinds : x.text} : ChannelCreated(g, k)
    \/ \E g \in Guilds, i \in 1..MaxChannelId : ChannelDeleted(g, i)

SpecJoinLeave == InitJoinLeave /\ [][NextJoinLeave]_vars

\* ---- the polls of the polls cog

\* The ids of the polls: q1 and q2 are two seconds in one channel of g1.  bob and
\* carol create the polls, alice votes, and every member clicks on the end button.
PollsIds == {"q1", "q2"}

InitPolls ==
    /\ QuietMod
    /\ QuietRelay /\ QuietBridge /\ QuietGame /\ QuietLater

NextPolls ==
    \/ \E p \in PollsIds, c \in {"bob", "carol"}, m, sent \in BOOLEAN :
          PollCreate(p, c, "g1", m, sent)
    \/ \E k \in 1..MaxObjs, fetched \in BOOLEAN : PollCreateSave(k, fetched)
    \/ \E k \in 1..MaxObjs, i \in OptionIdx : PollVote("alice", k, i)
    \/ \E ok \in BOOLEAN : PollVoteSave("alice", ok)
    \/ \E u \in Members, k \in 1..MaxObjs : PollEnd(u, k)

SpecPolls == InitPolls /\ [][NextPolls]_vars
\* The handlers inside the critical section (between the lock taken and released).
InLock == {h \in Handlers : task[h].pc \in {"dup_reply", "wrong_delete"}}

\* C1: the load, the checks and the save run as one critical section under
\* game_state_lock: at most one handler is inside and it holds the lock; the numbers
\* accepted since the last reset are consecutive (1, 2, 3, ... after a reset), none
\* twice, and the saved current_number is one more than the last accepted number.
C1_AcceptedInOrder ==
    /\ Cardinality(InLock) <= 1
    /\ \A h \in Handlers : h \in InLock <=> game_state_lock = h
    /\ \A i \in 1..Len(accepted) : accepted[i] = startNumber + (i - 1)
    /\ \A i, j \in 1..Len(accepted) : i # j => accepted[i] # accepted[j]
    /\ load_game_state(state_file).current_number = startNumber + Len(accepted)
    /\ resets => startNumber = 1

\* C1 witness: after a reset 1 and 2 have been accepted while another message
\* carrying 2 again waits for the lock.
C1_Witness ==
    /\ resets
    /\ accepted = <<1, 2>>
    /\ \E h \in Handlers : task[h].pc = "wait_lock" /\ task[h].kind = "msg"
                           /\ task[h].sent_number = 2

\* A numeric user message in a relay channel whose handler takes the lock in this
\* step: it has just arrived and the lock is free, or it waited for the lock.
TakesLock(h, a, c, n) ==
    \/ /\ Free(h) /\ CanLock /\ c \in DictKeys(relay_webhooks)
       /\ MsgArrive(h, a, c, [isInt |-> TRUE, val |-> n], "user")
    \/ /\ task[h].pc = "wait_lock"
       /\ task[h].author = a /\ task[h].channel = c /\ task[h].sent_number = n
       /\ MsgLocked(h)

\* The channels a broadcast is meant for: the channels registered when its for loop
\* starts, without the source channel unless the reset is manual.
Targets(t) ==
    IF t.status_type = "MANUAL_RESET" THEN t.registered ELSE t.registered \ {t.channel}

\* The send a broadcast awaited has returned or raised in this step: the loop has gone
\* on to its next target or has ended.
Resumed(h) == task[h].pc = "bcast" /\ task'[h].it # task[h].it

\* C2 as claimed: at-least-once: when a broadcast ends, every relay channel registered
\* when it started, other than the source channel, has received it.
C2_AtLeastOnce ==
    [][\A h \in Handlers :
        (Resumed(h) /\ task'[h].pc # "bcast") =>
            (task[h].registered \ {task[h].channel}) \subseteq task'[h].received
    ]_vars

\* C2 as amended: best effort, without retry.  A broadcast starts with the send to a
\* channel it is meant for, or is over at once when it is meant for no channel; a
\* wrong-number reset is broadcast only when its failure notice could be sent,
\* and then to the relay channels as they are after the notice.  When an awaited send
\* returns the channel has received the status and when it raises the channel has
\* not, and the loop goes on with next(it) on relay_webhooks as it is now:
\*  - relay channels were added or removed during the broadcast and their number is
\*    not the number at the start of the loop: RuntimeError ends the broadcast, and
\*    the channels not yet reached are not sent the status;
\*  - the relay channels were not changed during the broadcast: the channel was one
\*    the broadcast is meant for, not sent to before; the loop does not fail, and it
\*    ends only when every channel it is meant for has been sent the status once;
\*  - they were changed and their number is the same again: the loop ends, with or
\*    without RuntimeError, or sends to a channel registered now, never the source
\*    channel of a number or of a wrong-number reset.
C2_BestEffortOnce ==
    [][\A h \in Handlers :
        LET t == task[h]
            t2 == task'[h]
            keys == DictKeys(relay_webhooks)
            attempted == t.received \cup t.failed
            attempted2 == t2.received \cup t2.failed
            Over(exc) == t2.pc \in {"idle", "followup"} /\ t2.exc = exc
            First(meant) ==
                /\ t2.received = {} /\ t2.failed = {}
                /\ IF meant = {} THEN Over(None)
                   ELSE t2.pc = "bcast" /\ t2.target \in meant /\ Targets(t2) = meant
        IN /\ (accepted' # accepted /\ t2 # t) =>
                 \A a \in Users, c \in Channels, n \in 0..MaxNumber :
                    TakesLock(h, a, c, n) => First(keys \ {c})
           /\ (t.pc \in {"idle", "wait_lock"} /\ t2.kind = "reset" /\ t2.pc # "wait_lock") =>
                 First(keys)
           /\ (t.pc = "fail_notice" /\ t2.pc # "fail_notice") =>
                 \/ t2.pc = "idle" /\ t2.exc = "HTTPException" /\ attempted2 = {}
                 \/ First(keys \ {t.channel})
           /\ Resumed(h) =>
                 /\ \/ t2.received = t.received \cup {t.target} /\ t2.failed = t.failed
                    \/ t2.failed = t.failed \cup {t.target} /\ t2.received = t.received
                 /\ IF Cardinality(keys) # Cardinality(t.registered)
                    THEN /\ t.modified
                         /\ t2.pc = "idle" /\ t2.exc = "RuntimeError"
                    ELSE IF ~t.modified
                    THEN /\ keys = t.registered
                         /\ t.target \in Targets(t) \ attempted
                         /\ IF attempted2 = Targets(t) THEN Over(None)
                            ELSE t2.pc = "bcast" /\ t2.target \in Targets(t) \ attempted2
                    ELSE \/ Over(None)
                         \/ t2.pc = "idle" /\ t2.exc = "RuntimeError"
                         \/ /\ t2.pc = "bcast" /\ t2.target \in keys
                            /\ t.status_type # "MANUAL_RESET" => t2.target # t.channel
    ]_vars

\* C2 witness: a number was accepted and its broadcast is over without an exception;
\* the one send of it failed: that channel never receives the status.
C2_Witness ==
    /\ accepted # <<>> /\ ~resets
    /\ relay_webhooks = <<"c1", "c2">> /\ hook_task = {}
    /\ \E h \in Handlers :
          /\ task[h].pc = "idle" /\ task[h].exc = None
          /\ task[h].failed # {} /\ task[h].received = {}

(***************************************************************************)
(* The global check and the expiry of global bans and mutes               *)
(***************************************************************************)

\* C3: whenever _global_app_command_check runs for a user who has a global ban or a
\* global mute record that has not expired (no expiry time, or one later than now),
\* it raises CheckFailure; for a user who has neither a ban nor a mute record it
\* returns True, whatever warnings that user has.  The records are those the /bot
\* commands have left in the stores before the check runs.
C3_CheckBlocks ==
    [][\A u \in Users :
          (out'.cog = "bot" /\ out'.op = "check" /\ out'.invoker = u) =>
              LET Live(store) == /\ u \in DOMAIN store
                                 /\ \/ store[u].expires = <<>>
                                    \/ now < store[u].expires[1]
              IN /\ (Live(g_bans) \/ Live(g_mutes)) => out'.result = "CheckFailure"
                 /\ (u \notin DOMAIN g_bans /\ u \notin DOMAIN g_mutes) => out'.result = "True"
      ]_vars

\* The check has refused a user who is muted, not banned, and has a warning.
C3_Witness ==
    /\ out.cog = "bot" /\ out.op = "check" /\ out.result = "CheckFailure"
    /\ out.invoker = "bob"
    /\ "bob" \in DOMAIN g_mutes /\ "bob" \notin DOMAIN g_bans /\ "bob" \in DOMAIN g_warns

\* C4: a run of _cleanup_expired (in the global check, in list_bans and in list_mutes
\* of the owner) removes exactly the bans and mutes whose expiry time is <= now and
\* keeps the others as they are, records without expiry time among them; the files
\* then hold the stores; and a check for a user whose records all went is answered
\* True.  No other step removes or changes a ban or mute record, except ban and unban
\* (mute and unmute) of that very user: until the cleanup runs, the record stays.
C4_LazyExpiry ==
    [][LET Due(rec) == rec.expires # <<>> /\ rec.expires[1] <= now
           Kept(store) == {u \in DOMAIN store : ~Due(store[u])}
           CleanupRan ==
               /\ out'.cog = "bot"
               /\ \/ out'.op = "check"
                  \/ out'.op \in {"list_bans", "list_mutes"} /\ out'.result = "done"
           Explicit(ops, u) ==
               out'.cog = "bot" /\ out'.op \in ops /\ out'.result = "done" /\ out'.target = u
       IN /\ CleanupRan =>
               /\ DOMAIN g_bans' = Kept(g_bans)
               /\ \A u \in Kept(g_bans) : g_bans'[u] = g_bans[u]
               /\ DOMAIN g_mutes' = Kept(g_mutes)
               /\ \A u \in Kept(g_mutes) : g_mutes'[u] = g_mutes[u]
               /\ g_files' = [bans |-> g_bans', mutes |-> g_mutes', warns |-> g_warns']
               /\ out'.removed = {<<"ban", u>> : u \in DOMAIN g_bans \ Kept(g_bans)}
                                 \cup {<<"mute", u>> : u \in DOMAIN g_mutes \ Kept(g_mutes)}
               /\ (out'.op = "check" /\ out'.invoker \notin Kept(g_bans) \cup Kept(g_mutes))
                      => out'.result = "True"
          /\ ~CleanupRan =>
               \A u \in Users :
                  /\ (u \in DOMAIN g_bans /\ ~Explicit({"ban", "unban"}, u))
                        => u \in DOMAIN g_bans' /\ g_bans'[u] = g_bans[u]
                  /\ (u \in DOMAIN g_mutes /\ ~Explicit({"mute", "unmute"}, u))
                        => u \in DOMAIN g_mutes' /\ g_mutes'[u] = g_mutes[u]
      ]_vars

\* A check has removed the expired ban of its user and let the user pass, while a
\* mute without expiry time is still on record.
C4_Witness ==
    /\ out.cog = "bot" /\ out.op = "check" /\ out.result = "True"
    /\ <<"ban", out.invoker>> \in out.removed
    /\ \E u \in DOMAIN g_mutes : g_mutes[u].expires = <<>>
    /\ now > 0

(***************************************************************************)
(* The server mutes                                                        *)
(***************************************************************************)

\* C5: for a message of a user (not a bot) in a guild: if the author has a mute
\* record in that guild which has not expired, message.delete() is called and a DM is
\* tried, and the record stays; if the author has no mute record in that guild (a
\* record in another guild does not count), nothing is deleted and nothing changes;
\* if the record has expired, it is removed, the removal is saved to the file and the
\* message is not deleted.  Bot messages and all other handlers delete nothing, and a
\* mute record changes only by mute or unmute of that user in that guild or by its
\* expiry at a message of that user.
C5_PerGuildMute ==
    [][LET isMessage == out'.cog = "server" /\ out'.op = "message"
           g == out'.guild
           u == out'.invoker
           e == IF out'.guild = None THEN <<>> ELSE MuteEntry(srv_mutes, out'.guild, out'.invoker)
           due == e # <<>> /\ e[1].expires # <<>> /\ e[1].expires[1] <= now
           Touched(gid, m) ==
               \/ /\ out'.cog = "server" /\ out'.op \in {"mute", "unmute"}
                  /\ out'.result = "done" /\ out'.guild = gid /\ out'.target = m
               \/ /\ isMessage /\ out'.result = "expired"
                  /\ out'.guild = gid /\ out'.invoker = m
       IN /\ (isMessage /\ out'.result # "bot") =>
               /\ (e # <<>> /\ ~due) =>
                     /\ out'.deleted /\ out'.dm = u
                     /\ UNCHANGED srvVars
               /\ e = <<>> => ~out'.deleted /\ out'.dm = None /\ UNCHANGED srvVars
               /\ due =>
                     /\ ~out'.deleted /\ out'.dm = None
                     /\ out'.result = "expired"
                     /\ MuteEntry(srv_mutes', g, u) = <<>>
                     /\ srv_mute_file' = srv_mutes'
          /\ (~isMessage \/ out'.result = "bot") => ~out'.deleted
          /\ \A gid \in Guilds, m \in Members :
                ~Touched(gid, m) => MuteEntry(srv_mutes', gid, m) = MuteEntry(srv_mutes, gid, m)
      ]_vars

\* A message of a user with a running, limited mute in the guild has been deleted,
\* while the same user has no mute in the other guild.
C5_Witness ==
    /\ out.cog = "server" /\ out.op = "message" /\ out.deleted
    /\ out.guild \in Guilds
    /\ MuteEntry(srv_mutes, out.guild, out.invoker) # <<>>
    /\ MuteEntry(srv_mutes, out.guild, out.invoker)[1].expires = <<1>>
    /\ \E g \in Guilds \ {out.guild} : MuteEntry(srv_mutes, g, out.invoker) = <<>>

(***************************************************************************)
(* The chat bridge                                                         *)
(***************************************************************************)

\* C6 as stated: when the forwarding loop of on_message has ended, every channel
\* registered when the loop started, other than the source channel, has received the
\* message exactly once, and the source channel has not.
C6_ForwardedToAll ==
    \A h \in BridgeHandlers :
        LET t == bridge_task[h]
        IN (t.pc = "send" /\ t.idx > Len(t.targets)) =>
               /\ t.delivered = SeqKeys(t.targets) \ {t.source}
               /\ ~t.resent

\* C6, amended: on_message goes on with a message only if its channel is registered
\* when it arrives, and sends only from a list of at least two registered channels,
\* taken once before the first send.  The loop makes exactly one send attempt to
\* every channel of that list other than the source channel, none to the source
\* channel and none twice; a channel receives the message exactly when its one send
\* succeeds.  Without a list (channel not registered, or at most one channel
\* registered when the list is taken) nothing is sent.
C6_BestEffortOnce ==
    [][\A h \in BridgeHandlers :
          LET t == bridge_task[h]
              t2 == bridge_task'[h]
              tried == t.delivered \cup t.failed
              tried2 == t2.delivered \cup t2.failed
          IN /\ (t.pc = "idle" /\ t2.pc # "idle") => t2.source \in SeqKeys(bridge_webhooks)
             /\ (t.pc # "send" /\ t2.pc = "send") =>
                   /\ t2.targets = bridge_webhooks /\ Len(t2.targets) >= 2
                   /\ tried2 = {}
             /\ (t.pc = "send" /\ t2.pc = "send" /\ t2 # t) =>
                   /\ t2.targets = t.targets /\ t2.source = t.source
                   /\ Cardinality(tried2) = Cardinality(tried) + 1
                   /\ t.delivered \subseteq t2.delivered /\ t.failed \subseteq t2.failed
             /\ t2.pc = "send" =>
                   /\ tried2 \subseteq SeqKeys(t2.targets) \ {t2.source}
                   /\ t2.delivered \cap t2.failed = {}
                   /\ ~t2.resent
                   /\ t2.idx > Len(t2.targets) => tried2 = SeqKeys(t2.targets) \ {t2.source}
             /\ t2.pc # "send" => tried2 = {}
      ]_vars

\* The loop has ended with one channel served and another whose send failed.
C6_Witness ==
    \E h \in BridgeHandlers :
        LET t == bridge_task[h]
        IN /\ t.pc = "send" /\ t.idx > Len(t.targets)
           /\ t.delivered # {} /\ t.failed # {}
           /\ t.source \in SeqKeys(t.targets)

(***************************************************************************)
(* The announcement channel                                                *)
(***************************************************************************)

C8_OwnerOnly ==
    [][LET IdText == [alice |-> "101", bob |-> "102"]
           ConfiguredOwner(u) ==
               /\ owner_env # ""
               /\ owner_env \in {IdText[u], UserName[u], UserTag[u]}
           command == out'.cog = "bot" /\ out'.op \in {"ban", "unban", "mute", "unmute",
                                                        "warn", "unwarn"}
           same == /\ g_bans' = g_bans /\ g_mutes' = g_mutes /\ g_warns' = g_warns
                   /\ g_files' = g_files
       IN /\ \A u \in Users :
                (command /\ out'.invoker = u /\ ~ConfiguredOwner(u)) =>
                    /\ out'.result = "owner only"
                    /\ same
                    /\ out'.sent = {} /\ out'.dm = None
                    /\ UNCHANGED <<annVars, channel_file, guilds>>
          /\ (command /\ owner_env = "") => out'.result = "owner only"
          /\ ~same => command /\ out'.invoker \in Users /\ ConfiguredOwner(out'.invoker)
      ]_vars

\* A ban by a user who is not the owner has been refused while the stores hold a
\* record the owner made.
C8_Witness ==
    /\ out.cog = "bot" /\ out.op = "ban" /\ out.result = "owner only"
    /\ owner_env = "bob" /\ out.invoker = "alice"
    /\ g_bans # EmptyMap
    /\ out.sent = {} /\ out.dm = None

(***************************************************************************)
(* The warnings                                                            *)
(***************************************************************************)

\* C9: an unwarn that is carried out (/bot unwarn, or /server unwarn in a guild)
\* leaves the target's list of warnings without its last element and all other lists
\* as they are; a warn that is carried out appends one warning to the target's list
\* and changes no other list, so that the unwarn after it gives the list before it;
\* an unwarn for a user without warnings answers "no record" and changes no store
\* and no file.
C9_UnwarnLast ==
    [][LET GList(ws, u) == IF u \in DOMAIN ws THEN ws[u] ELSE <<>>
           SList(ws, g, u) ==
               IF g \in DOMAIN ws /\ u \in DOMAIN ws[g] THEN ws[g][u] ELSE <<>>
           Longer(long, short) ==
               /\ Len(long) = Len(short) + 1
               /\ \A i \in 1..Len(short) : long[i] = short[i]
           done(cog, op) == out'.cog = cog /\ out'.op = op /\ out'.result = "done"
           t == out'.target
           g == out'.guild
       IN /\ done("bot", "unwarn") => Longer(GList(g_warns, t), GList(g_warns', t))
          /\ done("bot", "warn") => Longer(GList(g_warns', t), GList(g_warns, t))
          /\ done("server", "unwarn") =>
                 Longer(SList(srv_warns, g, t), SList(srv_warns', g, t))
          /\ done("server", "warn") =>
                 Longer(SList(srv_warns', g, t), SList(srv_warns, g, t))
          /\ \A u \in Members :
                /\ ~(out'.cog = "bot" /\ out'.result = "done" /\ out'.target = u)
                      => GList(g_warns', u) = GList(g_warns, u)
                /\ \A gid \in Guilds :
                      ~(/\ out'.cog = "server" /\ out'.result = "done"
                        /\ out'.target = u /\ out'.guild = gid)
                      => SList(srv_warns', gid, u) = SList(srv_warns, gid, u)
          /\ (out'.op = "unwarn" /\ out'.result = "no record") =>
                /\ IF out'.cog = "bot" THEN GList(g_warns, t) = <<>>
                   ELSE SList(srv_warns, g, t) = <<>>
                /\ UNCHANGED <<g_warns, g_files, srvVars>>
      ]_vars

\* A /server unwarn has taken the second of two warnings and left the first.
C9_Witness ==
    /\ out.cog = "server" /\ out.op = "unwarn" /\ out.result = "done"
    /\ out.guild \in DOMAIN srv_warns
    /\ out.target \in DOMAIN srv_warns[out.guild]
    /\ Len(srv_warns[out.guild][out.target]) = 1
    /\ srv_warns[out.guild][out.target][1].reason = "spam"

(***************************************************************************)
(* 2048                                                                    *)
(***************************************************************************)

\* C10 as stated: after a button whose move changed the board, the board move() left
\* is packed toward the edge the button names: after up no column has an empty cell
\* above a tile (row 1 is the top row, board[0] in the source), after down none below
\* a tile, after left no row has an empty cell left of a tile, after right none right
\* of a tile.
C10_SlidesTowardEdge ==
    last_move.moved =>
        LET b == last_move.board
            d == last_move.direction
        IN \A r \in 1..Size, c \in 1..Size :
              b[r][c] = 0 =>
                 /\ d = "up" => \A r2 \in (r + 1)..Size : b[r2][c] = 0
                 /\ d = "down" => \A r2 \in 1..(r - 1) : b[r2][c] = 0
                 /\ d = "left" => \A c2 \in (c + 1)..Size : b[r][c2] = 0
                 /\ d = "right" => \A c2 \in 1..(c - 1) : b[r][c2] = 0

(***************************************************************************)
(* 2048: the merge rule                                                    *)
(***************************************************************************)

\* C11: a move to the left turns every row into the row the 2048 rule gives: the
\* tiles without the zeros, the first two merged if equal and then the next two if
\* equal, else the second and third if equal, else the third and fourth if equal (a
\* merged tile is not merged again), padded with zeros to four cells; the move
\* reports no change exactly when the rule changes no row.  A move in any direction
\* keeps the sum of the tiles and raises the score by the value of the tiles the
\* merges made (as told by the counts of the tiles before and after); a move that
\* reports no change leaves board and score.
C11_MergeRule ==
    [][LET b == board
           b2 == board'
           IsTile(v) == v # 0
           Merged(n) ==
               IF Len(n) >= 2 /\ n[1] = n[2]
               THEN IF Len(n) = 4 /\ n[3] = n[4] THEN <<2 * n[1], 2 * n[3]>>
                    ELSE <<2 * n[1]>> \o SubSeq(n, 3, Len(n))
               ELSE IF Len(n) >= 3 /\ n[2] = n[3]
               THEN <<n[1], 2 * n[2]>> \o SubSeq(n, 4, Len(n))
               ELSE IF Len(n) = 4 /\ n[3] = n[4] THEN <<n[1], n[2], 2 * n[3]>>
               ELSE n
           Padded(n) == [i \in 1..Size |-> IF i <= Len(n) THEN n[i] ELSE 0]
           Rule(line) == Padded(Merged(SelectSeq(line, IsTile)))
           Count(x, v) == Cardinality({rc \in Cells : x[rc[1]][rc[2]] = v})
           TileSum(x) == 2 * Count(x, 2) + 4 * Count(x, 4) + 8 * Count(x, 8)
                         + 16 * Count(x, 16) + 32 * Count(x, 32)
           m2 == (Count(b, 2) - Count(b2, 2)) \div 2
           m4 == (Count(b, 4) - Count(b2, 4) + m2) \div 2
           m8 == (Count(b, 8) - Count(b2, 8) + m4) \div 2
           m16 == (Count(b, 16) - Count(b2, 16) + m8) \div 2
       IN /\ last_move'.direction \in Directions
          /\ last_move'.board = b2
          /\ TileSum(b2) = TileSum(b)
          /\ score' - score = 4 * m2 + 8 * m4 + 16 * m8 + 32 * m16
          /\ ~last_move'.moved => b2 = b /\ score' = score /\ moves' = moves
          /\ last_move'.moved => b2 # b /\ moves' = moves + 1
          /\ last_move'.direction = "left" =>
                /\ \A r \in 1..Size : b2[r] = Rule(b[r])
                /\ last_move'.moved <=> \E r \in 1..Size : Rule(b[r]) # b[r]
      ]_vars

\* A move to the left has merged the two 2 of a row 2 2 4 and has left the 4 they
\* made beside the old 4.
C11_Witness ==
    /\ last_move.moved /\ last_move.direction = "left"
    /\ board[1] = <<4, 4, 0, 0>>
    /\ score = 4 /\ moves = 1

(***************************************************************************)
(* 2048: the score file                                                    *)
(***************************************************************************)

\* C12: at most one thread is between taking and releasing file_lock, and whenever no
\* save is under way, data/game/2048.json holds the records it held at the start
\* and the records handed to the threads, each of them exactly once.
C12_NoScoreLost ==
    /\ Cardinality({t \in SaveThreads : save_thread[t].pc \in {"locked", "loaded", "dumped"}}) <= 1
    /\ (\A t \in SaveThreads : save_thread[t].pc = "idle") =>
          /\ Len(scores_file) \in {Len(submitted), Len(submitted) + 1}
          /\ \A r \in {scores_file[i] : i \in DOMAIN scores_file}
                      \cup {submitted[i] : i \in DOMAIN submitted} :
                LET Count(seq) == Cardinality({i \in DOMAIN seq : seq[i] = r})
                    old == SubSeq(scores_file, 1, Len(scores_file) - Len(submitted))
                IN /\ old \in OldScores
                   /\ Count(scores_file) = Count(old) + Count(submitted)

\* The owner's game is over and its record was handed to a thread while the save of
\* another game's record ran; both saves have ended, and the file holds the old
\* record and both new ones.
C12_Witness ==
    /\ \A t \in SaveThreads : save_thread[t].pc = "idle"
    /\ is_game_over(board)
    /\ Len(submitted) = 2
    /\ \E i \in 1..2 : submitted[i] = [user_id |-> GameOwner, score |-> 0,
                                       moves |-> LateMoves + 1]
    /\ Len(scores_file) = 3
    /\ scores_file[2] # scores_file[3]

\* C13: /server ban, kick and mute act only for an invoker who is a member with the
\* permission of the action (ban_members; kick_members; manage_messages,
\* moderate_members or manage_roles; administrator for all three) and who is an
\* administrator or stands above the target, a member, by top role; every other run
\* is a refusal that leaves the mute store and its file alone and makes no ban or
\* kick call.
C13_Sanction ==
    [][(out'.cog = "server" /\ out'.op \in {"ban", "kick", "mute"}) =>
        LET acted == out'.result \in {"done", "forbidden"}
        IN /\ ~acted => UNCHANGED <<srv_mutes, srv_mute_file, ban_calls, kick_calls>>
           /\ acted =>
                /\ out'.guild \in Guilds
                /\ LET mod == GuildMembers[out'.guild][out'.invoker]
                       tgt == GuildMembers[out'.guild][out'.target]
                       permitted ==
                           \/ out'.op = "ban" /\ mod[1].ban_members
                           \/ out'.op = "kick" /\ mod[1].kick_members
                           \/ out'.op = "mute" /\ (mod[1].manage_messages
                                                    \/ mod[1].moderate_members
                                                    \/ mod[1].manage_roles)
                   IN /\ mod # <<>>
                      /\ \/ mod[1].administrator
                         \/ /\ permitted
                            /\ tgt # <<>>
                            /\ mod[1].top_role > tgt[1].top_role
    ]_vars

\* C13 witness: bob, a moderator but no administrator, has muted carol below him, and
\* alice, the administrator, has just banned dave, who is no member of the guild.
C13_Witness ==
    /\ out.cog = "server" /\ out.op = "ban" /\ out.result = "done"
    /\ out.guild = "g1" /\ out.invoker = "alice" /\ out.target = "dave"
    /\ <<"g1", "dave">> \in ban_calls
    /\ "carol" \in DOMAIN GuildStore(srv_mutes, "g1")
    /\ srv_mutes["g1"]["carol"].moderator = UserId["bob"]

\* C18: what /server list_mutes shows in a guild is exactly the users with a mute of
\* that guild that is still in force: a record without expiry or with an expiry
\* later than now.
C18_ListCurrent ==
    [][(out'.cog = "server" /\ out'.op = "list_mutes" /\ out'.guild \in Guilds) =>
        out'.listed =
            {u \in DOMAIN GuildStore(srv_mutes, out'.guild) :
                LET expires == srv_mutes[out'.guild][u].expires
                IN expires = <<>> \/ now < expires[1]}
    ]_vars

\* C19: a numeric message of the user the state file records as last_user_id is
\* rejected whatever its number: when its handler takes the lock, the file is not
\* written, current_number and last_user_id stay what they were, no number is
\* accepted and the game is not reset; and when the handler has answered, or its
\* answer could not be sent, it is over (returned, or ended by the exception of the
\* send) without a broadcast and without a change of the state.
C19_NoDoublePost ==
    [][\A h \in Handlers :
        /\ task'[h] # task[h] =>
           \A a \in Users, c \in Channels, n \in 0..MaxNumber :
              (TakesLock(h, a, c, n) /\ a = load_game_state(state_file).last_user_id) =>
                 /\ task'[h].pc = "dup_reply"
                 /\ task'[h].status_type = None
                 /\ state_file' = state_file
                 /\ game_state' = game_state
                 /\ game_state'.last_user_id = a
                 /\ accepted' = accepted /\ resets' = resets /\ startNumber' = startNumber
        /\ task[h].pc = "dup_reply" =>
              /\ task'[h] \in {task[h], IdleTask, [IdleTask EXCEPT !.exc = "HTTPException"]}
              /\ task'[h] # task[h] => game_state_lock' = None
              /\ UNCHANGED <<state_file, game_state, accepted, resets, startNumber>>
    ]_vars

\* C19 witness: bob's number was accepted and a second numeric message of bob is
\* being rejected.
C19_Witness ==
    /\ accepted # <<>>
    /\ game_state.last_user_id = "bob"
    /\ \E h \in Handlers : task[h].pc = "dup_reply"

\* C20: when the handler of a numeric message of another user than last_user_id takes
\* the lock, a number equal to current_number makes the state (current_number + 1,
\* author), saved and the lock released in the same step, the broadcast not yet
\* begun; another number is deleted under the lock, then the state becomes (1, None),
\* saved before the lock is released and before the notice and the broadcast; a
\* message of a bot, of an interaction, of another type, without an integer or outside
\* the relay channels changes nothing; and whenever the lock is free the file holds
\* the state in memory.
C20_AcceptOrReset ==
    [][/\ \A h \in Handlers :
          /\ (task'[h] # task[h] \/ accepted' # accepted) =>
              \A a \in Users, c \in Channels, n \in 0..MaxNumber :
                (TakesLock(h, a, c, n) /\ a # load_game_state(state_file).last_user_id) =>
                   LET current_number == load_game_state(state_file).current_number
                   IN IF n = current_number
                      THEN /\ game_state' = [current_number |-> current_number + 1,
                                             last_user_id |-> a]
                           /\ state_file' = [exists |-> TRUE,
                                             current_number |-> current_number + 1,
                                             last_user_id |-> a]
                           /\ game_state_lock' = None
                           /\ task'[h].received = {} /\ task'[h].failed = {}
                           /\ IF DictKeys(relay_webhooks) \subseteq {c}
                              THEN task'[h].pc = "idle" /\ task'[h].exc = None
                              ELSE /\ task'[h].pc = "bcast"
                                   /\ task'[h].status_type = "SUCCESS"
                                   /\ task'[h].target \in DictKeys(relay_webhooks) \ {c}
                      ELSE /\ task'[h].pc = "wrong_delete"
                           /\ game_state_lock' = h
                           /\ state_file' = state_file
          /\ (task[h].pc = "wrong_delete" /\ task'[h] # task[h]) =>
                /\ game_state' = [current_number |-> 1, last_user_id |-> None]
                /\ state_file' = [exists |-> TRUE, current_number |-> 1,
                                  last_user_id |-> None]
                /\ game_state_lock = h /\ game_state_lock' = None
                /\ task'[h].pc = "fail_notice"
                /\ task'[h].received = {} /\ task'[h].failed = {}
          /\ ~UNCHANGED <<state_file, game_state, game_state_lock, accepted>> =>
              \A a \in Users, c \in Channels, m \in Contents, f \in MsgFlags :
                ~(/\ Free(h)
                  /\ (f # "user" \/ c \notin DictKeys(relay_webhooks) \/ ~m.isInt)
                  /\ MsgArrive(h, a, c, m, f))
       /\ game_state_lock' = None => load_game_state(state_file') = game_state'
    ]_vars

\* C20 witness: a wrong number of another user than last_user_id has reset the game:
\* the state is (1, None), saved, and the failure notice is about to be sent.
C20_Witness ==
    /\ resets /\ accepted = <<>>
    /\ game_state = [current_number |-> 1, last_user_id |-> None]
    /\ state_file = [exists |-> TRUE, current_number |-> 1, last_user_id |-> None]
    /\ \E h \in Handlers : task[h].pc = "fail_notice" /\ task[h].kind = "msg"

\* C14: once a poll of the tools cog is closed it stays closed and its votes and
\* counts, in memory and in the file, never change again, whatever vote, reply, close
\* or timer step follows; and every vote click handled while it is closed is answered
\* that the poll has ended.  The one step left out is a create_poll that stores a new
\* poll under the id of the closed one.
C14_ClosedPollFrozen ==
    [][\A pid \in DOMAIN tool_polls :
        (tool_polls[pid].closed /\ ~(out'.op = "poll" /\ out'.target = pid)) =>
            /\ pid \in DOMAIN tool_polls' /\ pid \in DOMAIN tool_poll_file'
            /\ tool_polls'[pid].closed
            /\ tool_polls'[pid].votes = tool_polls[pid].votes
            /\ tool_polls'[pid].counts = tool_polls[pid].counts
            /\ tool_poll_file'[pid].votes = tool_polls[pid].votes
            /\ tool_poll_file'[pid].counts = tool_polls[pid].counts
            /\ (out'.cog = "tools" /\ out'.op = "vote" /\ out'.target = pid) =>
                  out'.result = "ended"
    ]_vars

\* C14 witness: alice's vote was saved and her handler is still editing the message
\* when the timer closes the poll; bob's click is then answered that the poll has ended.
C14_Witness ==
    /\ "p1" \in DOMAIN tool_polls
    /\ tool_polls["p1"].closed /\ tool_polls["p1"].closed_by = <<>>
    /\ DOMAIN tool_polls["p1"].votes = {"alice"}
    /\ <<"alice", "p1">> \in vote_task
    /\ \E a \in Authors : <<"p1", <<"timer", a>>>> \in close_task
    /\ out.cog = "tools" /\ out.op = "vote" /\ out.invoker = "bob" /\ out.result = "ended"

\* C15: a click on Close Poll closes the poll when the user is its author, an
\* administrator of the guild or the bot owner (OWNER given as id, tag or name), and
\* only then; any other click is refused and leaves the polls as they are.
C15_CloseRight ==
    [][(out'.cog = "tools" /\ out'.op = "close" /\ out'.target \in DOMAIN tool_polls) =>
        LET pid == out'.target
            user == out'.invoker
            poll == tool_polls[pid]
            member == GuildMembers[poll.guild][user]
            may == \/ poll.author_id = UserId[user]
                   \/ member # <<>> /\ member[1].administrator
                   \/ tools_is_owner_user(user)
        IN IF may
           THEN out'.result = "closed" /\ tool_polls'[pid].closed
           ELSE out'.result = "refused" /\ tool_polls' = tool_polls
    ]_vars

\* C16: a member joining (leaving) guild g when its join (leave) channel is set to an
\* existing channel c makes one send, to c, and changes no setting; when nothing is
\* set nothing is sent; an event that finds the channel it read missing sends nothing,
\* and it deletes the setting, in memory and in the file, when the channel set no
\* longer exists, and no other setting.  A setting changes only by such an
\* event or by a set or remove command of an administrator of the guild or of the bot
\* owner, which writes the channel given (or removes the entry) and saves the file;
\* the settings of the other kind and of the other guilds are left alone.
C16_JoinLeave ==
    [][\A kind \in EventKinds :
        LET mapping == IF kind = "join" THEN tool_joins ELSE tool_leaves
            mapping2 == IF kind = "join" THEN tool_joins' ELSE tool_leaves'
            file2 == IF kind = "join" THEN tool_join_file' ELSE tool_leave_file'
            event == out'.cog = "tools" /\ out'.op = "member_" \o kind
            set == out'.cog = "tools" /\ out'.op = "set_" \o kind /\ out'.result = "done"
            remove == out'.cog = "tools" /\ out'.op = "remove_" \o kind
                      /\ out'.result = "done"
            admin(g, u) == GuildMembers[g][u] # <<>> /\ GuildMembers[g][u][1].administrator
            owner(u) == /\ owner_env # ""
                        /\ owner_env \in {"101", "102"} => owner_env = ToString(UserId[u])
                        /\ owner_env \notin {"101", "102"} =>
                              owner_env \in {UserName[u], UserTag[u]}
            exists(g, c) == \E i \in DOMAIN guilds[g].channels : guilds[g].channels[i].id = c
            deleted(g) == /\ DOMAIN mapping2 = DOMAIN mapping \ {g}
                          /\ \A x \in DOMAIN mapping2 : mapping2[x] = mapping[x]
        IN /\ file2 = mapping2
           /\ event =>
                LET g == out'.guild
                    waited == \E t \in member_task \ member_task' : t[1] = kind /\ t[2] = g
                IN IF waited
                   THEN IF exists(g, out'.target)
                        THEN out'.sent = {out'.target} /\ mapping2 = mapping
                        ELSE /\ out'.sent = {}
                             /\ IF g \in DOMAIN mapping /\ ~exists(g, mapping[g])
                                THEN deleted(g)
                                ELSE mapping2 = mapping
                   ELSE IF g \notin DOMAIN mapping
                   THEN out'.sent = {} /\ mapping2 = mapping
                   ELSE IF exists(g, mapping[g])
                   THEN out'.sent = {mapping[g]} /\ mapping2 = mapping
                   ELSE out'.sent = {} /\ mapping2 = mapping /\ member_task' # member_task
           /\ set =>
                /\ admin(out'.guild, out'.invoker) \/ owner(out'.invoker)
                /\ DOMAIN mapping2 = DOMAIN mapping \cup {out'.guild}
                /\ mapping2[out'.guild] = out'.target
                /\ \A x \in DOMAIN mapping : x # out'.guild => mapping2[x] = mapping[x]
           /\ remove =>
                /\ admin(out'.guild, out'.invoker) \/ owner(out'.invoker)
                /\ out'.guild \in DOMAIN mapping
                /\ DOMAIN mapping2 = DOMAIN mapping \ {out'.guild}
                /\ \A x \in DOMAIN mapping2 : mapping2[x] = mapping[x]
           /\ ~(event \/ set \/ remove) => mapping2 = mapping
    ]_vars

\* C17: a click on the end button ends the poll only for its creator or an
\* administrator of the guild, and for each of them; once ended, the poll stays
\* ended, in memory and in the file, and its votes never change: every vote click on it
\* is answered that the poll has ended.
C17_EndedPoll ==
    [][\A pid \in DOMAIN polls :
        /\ (out'.cog = "polls" /\ out'.op = "end" /\ out'.target = pid) =>
              LET user == out'.invoker
                  may == \/ get_poll(pid).creator_id = UserId[user]
                         \/ GuildMembers[get_poll(pid).guild_id][user][1].administrator
              IN IF may
                 THEN get_poll(pid)'.ended /\ polls_file'[pid] = get_poll(pid)'
                 ELSE /\ polls' = polls /\ poll_objs' = poll_objs
                      /\ polls_file' = polls_file
        /\ (~get_poll(pid).ended /\ get_poll(pid)'.ended) =>
              (out'.cog = "polls" /\ out'.op = "end" /\ out'.target = pid)
        /\ get_poll(pid).ended =>
              /\ pid \in DOMAIN polls' /\ pid \in DOMAIN polls_file'
              /\ get_poll(pid)'.ended /\ polls_file'[pid].ended
              /\ get_poll(pid)'.votes = get_poll(pid).votes
              /\ polls_file'[pid].votes = get_poll(pid).votes
              /\ (out'.cog = "polls" /\ out'.op = "vote" /\ out'.target = pid) =>
                    out'.result = "ended"
    ]_vars

====
